---- MODULE Spec2Model ----
(***************************************************************************)
(* A model of auth-methods-for-convex:                                     *)
(*   - the ESLint plugin (eslint/index.js) with its two rules,             *)
(*     no-direct-query-mutation ("Rule A") and                             *)
(*     no-getuseridentity-in-authenticated ("Rule B"), run by the host     *)
(*     traversal over one file's syntax tree in document order;            *)
(*   - the runtime wrapper factory createAuthenticatedMethods              *)
(*     (src/index.ts).                                                     *)
(* Strings the code inspects character by character (file paths, import   *)
(* sources) are sequences of one-character strings.                       *)
(***************************************************************************)
EXTENDS Integers, Sequences, FiniteSets, TLC

(***************************************************************************)
(* Bounds of the model.                                                    *)
(***************************************************************************)
\* statements of one file (import declarations included)
MaxStmtsA == 3
MaxStmtsB == 3
\* statements of a file about handlers
MaxStmtsHandlers == 3
\* statements of a file about the module paths of the wrappers
MaxStmtsImports == 3
\* statements of a file with wrapper calls inside handlers
MaxStmtsNested == 4
\* statements of a file whose imports may stand after the calls
MaxStmtsOrder == 3
\* statements of a file whose path looks like that of the implementation file
MaxStmtsNearAuthFile == 3
\* statements of a file that is one of several analysed in sequence
MaxStmtsPasses == 3
\* statements of a file with shapes Rule B has no use for
MaxStmtsTotal == 3
\* definitions given to the wrappers
MaxDefinitions == 1
\* invocations of wrapped handlers
MaxInvocations == 2
\* definitions given to the wrappers, where the claim is about several
MaxDefinitionCalls == 2
\* invocations of wrapped handlers between such definitions
MaxProbes == 1

(***************************************************************************)
(* Strings.  A string value is written "..." and Chars gives its           *)
(* characters; the string methods work on the characters.                  *)
(***************************************************************************)
Chars(str) ==
    CASE str = "convex/auth.ts" ->
            <<"c","o","n","v","e","x","/","a","u","t","h",".","t","s">>
      [] str = "convex\\auth.ts" ->
            <<"c","o","n","v","e","x","\\","a","u","t","h",".","t","s">>
      [] str = "_generated/server" ->
            <<"_","g","e","n","e","r","a","t","e","d","/","s","e","r","v","e","r">>
      [] str = "convex/_generated/server" ->
            <<"c","o","n","v","e","x","/","_","g","e","n","e","r","a","t","e","d",
              "/","s","e","r","v","e","r">>
      [] str = "./_generated/server" ->
            <<".","/","_","g","e","n","e","r","a","t","e","d","/","s","e","r","v","e","r">>
      [] str = "./auth" -> <<".","/","a","u","t","h">>
      [] str = "../auth" -> <<".",".","/","a","u","t","h">>
      [] str = "/auth" -> <<"/","a","u","t","h">>
      [] str = "app\\convex\\auth.ts" ->
            <<"a","p","p","\\","c","o","n","v","e","x","\\","a","u","t","h",".","t","s">>
      [] str = "convex/notes.ts" ->
            <<"c","o","n","v","e","x","/","n","o","t","e","s",".","t","s">>
      [] str = "./utils" -> <<".","/","u","t","i","l","s">>
      [] str = "auth" -> <<"a","u","t","h">>
      [] str = "notconvex/auth.ts" ->
            <<"n","o","t","c","o","n","v","e","x","/","a","u","t","h",".","t","s">>
      [] str = "convex/auth.tsx" ->
            <<"c","o","n","v","e","x","/","a","u","t","h",".","t","s","x">>
      [] str = "convex/sub/auth.ts" ->
            <<"c","o","n","v","e","x","/","s","u","b","/","a","u","t","h",".","t","s">>
      [] str = "../lib/auth" -> <<".",".","/","l","i","b","/","a","u","t","h">>
      [] str = "./authors" -> <<".","/","a","u","t","h","o","r","s">>
      [] str = "../convex/_generated/server" ->
            <<".",".","/","c","o","n","v","e","x","/","_","g","e","n","e","r","a","t","e","d",
              "/","s","e","r","v","e","r">>

\* String.prototype.endsWith
endsWith(str, suffix) ==
    LET s == Chars(str)
        x == Chars(suffix)
    IN  /\ Len(x) <= Len(s)
        /\ SubSeq(s, Len(s) - Len(x) + 1, Len(s)) = x

\* String.prototype.includes
includes(str, sub) ==
    LET s == Chars(str)
        x == Chars(sub)
    IN  \E i \in 0..(Len(s) - Len(x)) : SubSeq(s, i + 1, i + Len(x)) = x

\* file paths that look like the implementation file, and the file itself
FilenamesNearAuthFile ==
    {"convex/auth.ts", "convex\\auth.ts", "app\\convex\\auth.ts",
     "notconvex/auth.ts", "convex/auth.tsx", "convex/sub/auth.ts", "convex/notes.ts"}

\* file paths a pass is started on
Filenames == {"convex/notes.ts", "convex/auth.ts", "app\\convex\\auth.ts"}

(***************************************************************************)
(* Syntax trees.  A tree is the sequence of its nodes in document order    *)
(* (pre-order); node 1 is the Program, and `parent` is 0 for it.  The      *)
(* fields callee/arguments/object/property/key/value/properties of ESTree  *)
(* are the children of a node in order, kept in `kids`.                    *)
(***************************************************************************)
undefined == "undefined"

NodeOf(type, up, name) ==
    [type |-> type, up |-> up, name |-> name, source |-> "", specifiers |-> <<>>]

ImportSpecifier(imported, local) ==
    [type |-> "ImportSpecifier", imported |-> imported, local |-> local]

ImportDefaultSpecifier(local) ==
    [type |-> "ImportDefaultSpecifier", imported |-> undefined, local |-> local]

\* import <specifiers> from '<source>'
ImportStmt(source, specifiers) ==
    << [type |-> "ImportDeclaration", up |-> 0, name |-> "",
        source |-> source, specifiers |-> specifiers] >>

\* the argument list of a call, by shape; the call is node 1, its callee node 2
ArgNodes(shape) ==
    CASE shape = "none" -> <<>>
      [] shape = "literal" -> << NodeOf("Literal", 1, "") >>
      [] shape = "callback" ->
            << NodeOf("ArrowFunctionExpression", 1, ""),
               NodeOf("BlockStatement", 3, "") >>
      [] shape = "objArgs" ->
            << NodeOf("ObjectExpression", 1, ""),
               NodeOf("Property", 3, ""),
               NodeOf("Identifier", 4, "args"),
               NodeOf("ObjectExpression", 4, "") >>
      [] shape = "objHandlerIdentifier" ->
            << NodeOf("ObjectExpression", 1, ""),
               NodeOf("Property", 3, ""),
               NodeOf("Identifier", 4, "handler"),
               NodeOf("Identifier", 4, "impl") >>
      [] shape = "objHandlerArrow" ->
            << NodeOf("ObjectExpression", 1, ""),
               NodeOf("Property", 3, ""),
               NodeOf("Identifier", 4, "args"),
               NodeOf("ObjectExpression", 4, ""),
               NodeOf("Property", 3, ""),
               NodeOf("Identifier", 7, "handler"),
               NodeOf("ArrowFunctionExpression", 7, ""),
               NodeOf("BlockStatement", 9, "") >>
      [] shape = "objHandlerFunction" ->
            << NodeOf("ObjectExpression", 1, ""),
               NodeOf("Property", 3, ""),
               NodeOf("Identifier", 4, "handler"),
               NodeOf("FunctionExpression", 4, ""),
               NodeOf("BlockStatement", 6, "") >>
      [] shape = "objOtherArrow" ->
            << NodeOf("ObjectExpression", 1, ""),
               NodeOf("Property", 3, ""),
               NodeOf("Identifier", 4, "onError"),
               NodeOf("ArrowFunctionExpression", 4, ""),
               NodeOf("BlockStatement", 6, "") >>
      [] shape = "objSpread" ->
            << NodeOf("ObjectExpression", 1, ""),
               NodeOf("SpreadElement", 3, ""),
               NodeOf("Identifier", 4, "definition") >>

\* callee(args)
CallStmt(calleeName, shape) ==
    << NodeOf("CallExpression", 0, ""), NodeOf("Identifier", 1, calleeName) >>
        \o ArgNodes(shape)

\* obj.mid.prop as an expression whose parent is node `up`, itself node `at`
MemberChain(up, at, obj, mid, prop) ==
    << NodeOf("MemberExpression", up, ""),
       NodeOf("MemberExpression", at, ""),
       NodeOf("Identifier", at + 1, obj),
       NodeOf("Identifier", at + 1, mid),
       NodeOf("Identifier", at, prop) >>

\* obj.mid.prop(), obj.mid.prop; and log(obj.mid.prop)
MemberStmt(obj, mid, prop, use) ==
    CASE use = "call" ->
            << NodeOf("CallExpression", 0, "") >> \o MemberChain(1, 2, obj, mid, prop)
      [] use = "reference" ->
            << NodeOf("ExpressionStatement", 0, "") >> \o MemberChain(1, 2, obj, mid, prop)
      [] use = "argument" ->
            << NodeOf("CallExpression", 0, ""), NodeOf("Identifier", 1, "log") >>
                \o MemberChain(1, 3, obj, mid, prop)

\* const helper = () => { ... }   and   if (c) { ... }
BlockStmt(type) ==
    IF type = "IfStatement"
    THEN << NodeOf("IfStatement", 0, ""), NodeOf("BlockStatement", 1, "") >>
    ELSE << NodeOf("VariableDeclaration", 0, ""), NodeOf(type, 1, ""),
            NodeOf("BlockStatement", 2, "") >>

\* const helper = () => { obj.mid.prop() }
HelperStmt(obj, mid, prop) ==
    << NodeOf("VariableDeclaration", 0, ""),
       NodeOf("ArrowFunctionExpression", 1, ""),
       NodeOf("BlockStatement", 2, ""),
       NodeOf("CallExpression", 3, "") >> \o MemberChain(4, 5, obj, mid, prop)

\* statement s with, at each node, the places of its children (`down`)
Linked(s) ==
    [i \in 1..Len(s) |->
        [type |-> s[i].type,
         up |-> s[i].up,
         down |-> SelectSeq([j \in 1..Len(s) |-> j], LAMBDA j : s[j].up = i),
         name |-> s[i].name,
         source |-> s[i].source,
         specifiers |-> s[i].specifiers]]

\* the nodes of statement s, attached under node p of a tree of n nodes
Attach(s, p, n) ==
    [i \in 1..Len(s) |->
        [type |-> s[i].type,
         parent |-> IF s[i].up = 0 THEN p ELSE n + s[i].up,
         kids |-> [k \in 1..Len(s[i].down) |-> n + s[i].down[k]],
         name |-> s[i].name,
         source |-> s[i].source,
         specifiers |-> s[i].specifiers]]

\* the places the topmost nodes of statement s take in a tree of n nodes
Roots(s, n) ==
    SelectSeq([j \in 1..Len(s) |-> n + j], LAMBDA k : s[k - n].up = 0)

ProgramNode ==
    [type |-> "Program", parent |-> 0, kids |-> <<>>, name |-> "",
     source |-> "", specifiers |-> <<>>]

\* the children of node n, in document order
Children(tr, n) == tr[n].kids

\* node n and its ancestors
RECURSIVE Ancestors(_, _)
Ancestors(tr, n) ==
    IF n = 0 THEN {} ELSE {n} \cup Ancestors(tr, tr[n].parent)

\* the nodes under which the next statement of the file can stand
OpenContainers(tr) ==
    {i \in Ancestors(tr, Len(tr)) : tr[i].type \in {"Program", "BlockStatement"}}

\* the statements of the file read so far
StmtCount(tr) ==
    Cardinality({i \in 2..Len(tr) :
        tr[tr[i].parent].type \in {"Program", "BlockStatement"}})

(***************************************************************************)
(* The state of one file pass.                                             *)
(***************************************************************************)
VARIABLES
    filename,                       \* context.getFilename()
    tree,                           \* the file's syntax tree, as far as the traversal has read it
    cursor,                         \* the last node of `tree` the traversal has visited
    listenersA,                     \* node types Rule A's create() returned a listener for
    listenersB,                     \* node types Rule B's create() returned a listener for
    importsFromGeneratedServer,     \* Rule A: Map local name -> imported name
    authenticatedImports,           \* Rule B: Set of local names
    authenticatedHandlerFunctions,  \* Rule B: Map function node -> true (its keys)
    diagnostics,                    \* context.report() calls, in order
    previousPass,                   \* the pass before this one, where passes are followed in sequence
    queryCalls,                     \* createAuthenticatedMethods: the calls of options.query
    mutationCalls,                  \* createAuthenticatedMethods: the calls of options.mutation
    invocations,                    \* the invocations of wrapped handlers
    definitionCalls                 \* the calls of authenticatedQuery / authenticatedMutation, in order

lintVars == <<filename, tree, cursor, listenersA, listenersB,
              importsFromGeneratedServer, authenticatedImports,
              authenticatedHandlerFunctions, diagnostics, previousPass>>

wrapperVars == <<queryCalls, mutationCalls, invocations, definitionCalls>>

vars == <<lintVars, wrapperVars>>

RULE_A == "no-direct-query-mutation"
RULE_B == "no-getuseridentity-in-authenticated"

Report(ruleId, node, messageId) ==
    [ruleId |-> ruleId, node |-> node, messageId |-> messageId]

\* Map.prototype.get
MapGet(m, k) == IF k \in DOMAIN m THEN m[k] ELSE undefined

\* a variant that keeps the entry a key already has
MapSetIfAbsent(m, k, v) == [x \in DOMAIN m \cup {k} |-> IF x \in DOMAIN m THEN m[x] ELSE v]

\* Map.prototype.set
MapSet(m, k, v) == [x \in DOMAIN m \cup {k} |-> IF x = k THEN v ELSE m[x]]

EmptyMap == [x \in {} |-> undefined]

(***************************************************************************)
(* Both rules: the exemption of the implementation file.                   *)
(***************************************************************************)
\* a variant that knows the POSIX spelling of the path only
isAuthFileSlashOnly(f) ==
    endsWith(f, "convex/auth.ts")

\* filename.endsWith('convex/auth.ts') || filename.endsWith('convex\\auth.ts')
isAuthFile(f) ==
    endsWith(f, "convex/auth.ts") \/ endsWith(f, "convex\\auth.ts")

(***************************************************************************)
(* Rule A, no-direct-query-mutation.                                       *)
(***************************************************************************)
\* the listeners create() returns
CreateA(f) ==
    IF isAuthFile(f) THEN {} ELSE {"ImportDeclaration", "CallExpression"}

\* node.specifiers.forEach(...) of Rule A's ImportDeclaration
RECURSIVE ForEachSpecifierA(_, _)
ForEachSpecifierA(specifiers, m) ==
    IF specifiers = <<>> THEN m
    ELSE LET specifier == Head(specifiers)
             m1 == IF /\ specifier.type = "ImportSpecifier"
                      /\ specifier.imported \in {"query", "mutation"}
                   THEN MapSet(m, specifier.local, specifier.imported)
                   ELSE m
         IN  ForEachSpecifierA(Tail(specifiers), m1)

\* a variant that records the imports of every module
ImportDeclarationAnySourceA(node, m) ==
    ForEachSpecifierA(node.specifiers, m)

\* ImportDeclaration(node): the map afterwards
ImportDeclarationA(node, m) ==
    IF \/ includes(node.source, "_generated/server")
       \/ includes(node.source, "convex/_generated/server")
    THEN ForEachSpecifierA(node.specifiers, m)
    ELSE m

\* a variant that goes by the name of the callee, not by the table
CallExpressionByNameA(tr, n, m) ==
    LET callee == Children(tr, n)[1]
    IN  IF tr[callee].type = "Identifier" /\ tr[callee].name \in {"query", "mutation"}
        THEN << Report(RULE_A, callee, IF tr[callee].name = "query"
                                       THEN "useAuthenticatedQuery"
                                       ELSE "useAuthenticatedMutation") >>
        ELSE <<>>

\* a variant that reports the call instead of its callee
CallExpressionAtCallA(tr, n, m) ==
    LET callee == Children(tr, n)[1]
        importedName == MapGet(m, tr[callee].name)
    IN  IF tr[callee].type = "Identifier" /\ importedName \in {"query", "mutation"}
        THEN << Report(RULE_A, n, IF importedName = "query"
                                  THEN "useAuthenticatedQuery"
                                  ELSE "useAuthenticatedMutation") >>
        ELSE <<>>

\* CallExpression(node): the reports it makes
CallExpressionA(tr, n, m) ==
    LET callee == Children(tr, n)[1]
        importedName == MapGet(m, tr[callee].name)
    IN  IF tr[callee].type = "Identifier" /\ importedName # undefined
        THEN IF importedName = "query"
             THEN << Report(RULE_A, callee, "useAuthenticatedQuery") >>
             ELSE IF importedName = "mutation"
                  THEN << Report(RULE_A, callee, "useAuthenticatedMutation") >>
                  ELSE <<>>
        ELSE <<>>

(***************************************************************************)
(* Rule B, no-getuseridentity-in-authenticated.                            *)
(***************************************************************************)
\* the listeners create() returns
CreateB(f) ==
    IF isAuthFile(f) THEN {}
    ELSE {"ImportDeclaration", "CallExpression", "MemberExpression"}

FunctionLiteralTypes == {"ArrowFunctionExpression", "FunctionExpression"}

\* node.specifiers.forEach(...) of Rule B's ImportDeclaration
RECURSIVE ForEachSpecifierB(_, _)
ForEachSpecifierB(specifiers, s) ==
    IF specifiers = <<>> THEN s
    ELSE LET specifier == Head(specifiers)
             s1 == IF /\ specifier.type = "ImportSpecifier"
                      /\ specifier.imported \in
                            {"authenticatedQuery", "authenticatedMutation"}
                   THEN s \cup {specifier.local}
                   ELSE s
         IN  ForEachSpecifierB(Tail(specifiers), s1)

\* a variant that takes the wrappers from every module
ImportDeclarationAnySourceB(node, s) ==
    ForEachSpecifierB(node.specifiers, s)

\* ImportDeclaration(node): the set afterwards
ImportDeclarationB(node, s) ==
    IF \/ node.source = "./auth"
       \/ node.source = "../auth"
       \/ includes(node.source, "/auth")
       \/ node.source = "./_generated/server"
       \/ includes(node.source, "_generated/server")
    THEN ForEachSpecifierB(node.specifiers, s)
    ELSE s

\* properties.find(prop => prop is a Property keyed by the identifier `handler`)
RECURSIVE FindHandlerProperty(_, _)
FindHandlerProperty(tr, props) ==
    IF props = <<>> THEN 0
    ELSE LET prop == Head(props)
         IN  IF /\ tr[prop].type = "Property"
                /\ tr[Children(tr, prop)[1]].type = "Identifier"
                /\ tr[Children(tr, prop)[1]].name = "handler"
             THEN prop
             ELSE FindHandlerProperty(tr, Tail(props))

\* a variant that keeps the latest handler only
CallExpressionLatestOnlyB(tr, n, imports, handlers) ==
    LET kids == Children(tr, n)
        callee == kids[1]
        arguments == Tail(kids)
    IN  IF /\ tr[callee].type = "Identifier"
           /\ tr[callee].name \in imports
           /\ Len(arguments) > 0
           /\ tr[arguments[1]].type = "ObjectExpression"
        THEN LET handlerProperty ==
                     FindHandlerProperty(tr, Children(tr, arguments[1]))
             IN  IF handlerProperty # 0
                 THEN LET handlerValue == Children(tr, handlerProperty)[2]
                      IN  IF tr[handlerValue].type \in FunctionLiteralTypes
                          THEN {handlerValue}
                          ELSE handlers
                 ELSE handlers
        ELSE handlers

\* a variant that registers the handler property instead of its value
CallExpressionRegistersPropertyB(tr, n, imports, handlers) ==
    LET kids == Children(tr, n)
        callee == kids[1]
        arguments == Tail(kids)
    IN  IF /\ tr[callee].type = "Identifier"
           /\ tr[callee].name \in imports
           /\ Len(arguments) > 0
           /\ tr[arguments[1]].type = "ObjectExpression"
        THEN LET handlerProperty ==
                     FindHandlerProperty(tr, Children(tr, arguments[1]))
             IN  IF handlerProperty # 0
                 THEN LET handlerValue == Children(tr, handlerProperty)[2]
                      IN  IF tr[handlerValue].type \in FunctionLiteralTypes
                          THEN handlers \cup {handlerProperty}
                          ELSE handlers
                 ELSE handlers
        ELSE handlers

\* a variant that registers whatever the handler property holds
CallExpressionAnyValueB(tr, n, imports, handlers) ==
    LET kids == Children(tr, n)
        callee == kids[1]
        arguments == Tail(kids)
    IN  IF /\ tr[callee].type = "Identifier"
           /\ tr[callee].name \in imports
           /\ Len(arguments) > 0
           /\ tr[arguments[1]].type = "ObjectExpression"
        THEN LET handlerProperty ==
                     FindHandlerProperty(tr, Children(tr, arguments[1]))
             IN  IF handlerProperty # 0
                 THEN handlers \cup {Children(tr, handlerProperty)[2]}
                 ELSE handlers
        ELSE handlers

\* a variant that registers arrow functions only
CallExpressionArrowOnlyB(tr, n, imports, handlers) ==
    LET kids == Children(tr, n)
        callee == kids[1]
        arguments == Tail(kids)
    IN  IF /\ tr[callee].type = "Identifier"
           /\ tr[callee].name \in imports
           /\ Len(arguments) > 0
           /\ tr[arguments[1]].type = "ObjectExpression"
        THEN LET handlerProperty ==
                     FindHandlerProperty(tr, Children(tr, arguments[1]))
             IN  IF handlerProperty # 0
                 THEN LET handlerValue == Children(tr, handlerProperty)[2]
                      IN  IF tr[handlerValue].type = "ArrowFunctionExpression"
                          THEN handlers \cup {handlerValue}
                          ELSE handlers
                 ELSE handlers
        ELSE handlers

\* CallExpression(node): the registered handler functions afterwards
CallExpressionB(tr, n, imports, handlers) ==
    LET kids == Children(tr, n)
        callee == kids[1]
        arguments == Tail(kids)
    IN  IF /\ tr[callee].type = "Identifier"
           /\ tr[callee].name \in imports
           /\ Len(arguments) > 0
           /\ tr[arguments[1]].type = "ObjectExpression"
        THEN LET handlerProperty ==
                     FindHandlerProperty(tr, Children(tr, arguments[1]))
             IN  IF handlerProperty # 0
                 THEN LET handlerValue == Children(tr, handlerProperty)[2]
                      IN  IF tr[handlerValue].type \in FunctionLiteralTypes
                          THEN handlers \cup {handlerValue}
                          ELSE handlers
                 ELSE handlers
        ELSE handlers

\* the test of MemberExpression(node): node is ctx.auth.getUserIdentity
IsForbiddenChain(tr, n) ==
    LET kids == Children(tr, n)
    IN  /\ Len(kids) = 2
        /\ tr[kids[2]].type = "Identifier"
        /\ tr[kids[2]].name = "getUserIdentity"
        /\ tr[kids[1]].type = "MemberExpression"
        /\ LET inner == Children(tr, kids[1])
           IN  /\ Len(inner) = 2
               /\ tr[inner[2]].type = "Identifier"
               /\ tr[inner[2]].name = "auth"
               /\ tr[inner[1]].type = "Identifier"
               /\ tr[inner[1]].name = "ctx"

\* the first while loop: some ancestor is a call whose callee is node
RECURSIVE IsCallee(_, _, _)
IsCallee(tr, node, parent) ==
    IF parent = 0 THEN FALSE
    ELSE IF tr[parent].type = "CallExpression" /\ Children(tr, parent)[1] = node
         THEN TRUE
         ELSE IsCallee(tr, node, tr[parent].parent)

\* the second while loop: current or an ancestor is a registered handler
RECURSIVE InsideHandler(_, _, _)
InsideHandler(tr, current, handlers) ==
    IF current = 0 THEN FALSE
    ELSE IF tr[current].type \in FunctionLiteralTypes /\ current \in handlers
         THEN TRUE
         ELSE InsideHandler(tr, tr[current].parent, handlers)

\* a variant whose second loop has no break: one report for each
\* registered function around the node
MemberExpressionEveryHandlerB(tr, n, handlers) ==
    LET registered == {c \in Ancestors(tr, n) :
                          tr[c].type \in FunctionLiteralTypes /\ c \in handlers}
    IN  IF IsForbiddenChain(tr, n) /\ IsCallee(tr, n, tr[n].parent)
        THEN [i \in 1..Cardinality(registered) |->
                 Report(RULE_B, n, "useContextIdentity")]
        ELSE <<>>

\* a variant that does not ask whether the chain is called
MemberExpressionAnyUseB(tr, n, handlers) ==
    IF IsForbiddenChain(tr, n) /\ InsideHandler(tr, n, handlers)
    THEN << Report(RULE_B, n, "useContextIdentity") >>
    ELSE <<>>

\* a variant that looks at the nearest enclosing function only
MemberExpressionNearestOnlyB(tr, n, handlers) ==
    LET functions == {a \in Ancestors(tr, n) : tr[a].type \in FunctionLiteralTypes}
    IN  IF /\ IsForbiddenChain(tr, n)
           /\ IsCallee(tr, n, tr[n].parent)
           /\ functions # {}
           /\ (CHOOSE a \in functions : \A b \in functions : b <= a) \in handlers
        THEN << Report(RULE_B, n, "useContextIdentity") >>
        ELSE <<>>

\* a variant that takes every enclosing function for a handler
MemberExpressionAnyFunctionB(tr, n, handlers) ==
    IF /\ IsForbiddenChain(tr, n)
       /\ IsCallee(tr, n, tr[n].parent)
       /\ \E a \in Ancestors(tr, n) : tr[a].type \in FunctionLiteralTypes
    THEN << Report(RULE_B, n, "useContextIdentity") >>
    ELSE <<>>

\* a variant that does not look for a handler at all
MemberExpressionAnywhereB(tr, n, handlers) ==
    IF IsForbiddenChain(tr, n) /\ IsCallee(tr, n, tr[n].parent)
    THEN << Report(RULE_B, n, "useContextIdentity") >>
    ELSE <<>>

\* MemberExpression(node): the reports it makes
MemberExpressionB(tr, n, handlers) ==
    IF /\ IsForbiddenChain(tr, n)
       /\ IsCallee(tr, n, tr[n].parent)
       /\ InsideHandler(tr, n, handlers)
    THEN << Report(RULE_B, n, "useContextIdentity") >>
    ELSE <<>>

(***************************************************************************)
(* The files analysed: the statements a file is made of.                   *)
(***************************************************************************)
\* the local name of a renamed import
Alias == "x"

\* files about Rule A: imports of the raw factories, under their own name or
\* renamed, from the generated module or elsewhere; calls of identifiers
StatementsA ==
  {Linked(s) : s \in
    UNION {{ImportStmt(src, << ImportSpecifier(i, l) >>) :
                src \in {"./_generated/server", "./utils"}, l \in {i, Alias}} :
           i \in {"query", "mutation"}}
    \cup {ImportStmt("../convex/_generated/server", << ImportSpecifier("query", "query") >>),
          ImportStmt("./_generated/server", << ImportDefaultSpecifier("query") >>),
          ImportStmt("./_generated/server", << ImportSpecifier("action", Alias) >>),
          ImportStmt("./_generated/server",
                     << ImportSpecifier("query", "query"),
                        ImportSpecifier("mutation", "mutation") >>)}
    \cup {CallStmt(c, "objArgs") : c \in {"query", "mutation", Alias, "someQuery"}}
    \cup {MemberStmt("ctx", "db", "query", "call"),
          BlockStmt("ArrowFunctionExpression")}}

\* files about Rule B: imports of the wrappers, wrapper calls, helper
\* functions and blocks, and uses of ctx.auth.getUserIdentity
StatementsB ==
  {Linked(s) : s \in
    {ImportStmt("./auth", << ImportSpecifier("authenticatedQuery", "authenticatedQuery") >>),
     ImportStmt("./auth", << ImportSpecifier("authenticatedMutation", Alias) >>),
     ImportStmt("./utils", << ImportSpecifier("authenticatedMutation", "authenticatedMutation") >>),
     ImportStmt("./_generated/server", << ImportSpecifier("query", "query") >>),
     CallStmt("authenticatedQuery", "objHandlerArrow"),
     CallStmt(Alias, "objHandlerFunction"),
     CallStmt("authenticatedMutation", "objHandlerArrow"),
     CallStmt("authenticatedQuery", "objOtherArrow"),
     CallStmt("query", "objHandlerArrow"),
     MemberStmt("ctx", "auth", "getUserIdentity", "call"),
     MemberStmt("ctx", "auth", "getUserIdentity", "reference"),
     MemberStmt("ctx", "db", "getUserIdentity", "call"),
     HelperStmt("ctx", "auth", "getUserIdentity"),
     BlockStmt("ArrowFunctionExpression"),
     BlockStmt("IfStatement")}}

\* files about handlers: what stands in them, and when they are registered
StatementsHandlers ==
  {Linked(s) : s \in
    {ImportStmt("./auth", << ImportSpecifier("authenticatedQuery", "authenticatedQuery") >>),
     CallStmt("authenticatedQuery", "objHandlerArrow"),
     CallStmt("authenticatedQuery", "objHandlerFunction"),
     MemberStmt("ctx", "auth", "getUserIdentity", "call"),
     MemberStmt("ctx", "auth", "getUserIdentity", "reference"),
     MemberStmt("ctx", "auth", "getUserIdentity", "argument"),
     BlockStmt("ArrowFunctionExpression")}}

\* files about the modules the wrappers are imported from
StatementsImports ==
  {Linked(s) : s \in
    {ImportStmt(src, << ImportSpecifier("authenticatedQuery", "authenticatedQuery") >>) :
        src \in {"./auth", "../auth", "../lib/auth", "./authors",
                 "./_generated/server", "auth", "./utils"}}
    \cup {ImportStmt("./auth", << ImportSpecifier("helper", "authenticatedQuery") >>),
          ImportStmt("./auth", << ImportDefaultSpecifier("authenticatedQuery") >>),
          CallStmt("authenticatedQuery", "objHandlerArrow"),
          MemberStmt("ctx", "auth", "getUserIdentity", "call")}}

\* files with wrapper calls inside the handlers of wrapper calls
StatementsNested ==
  {Linked(s) : s \in
    {ImportStmt("./auth", << ImportSpecifier("authenticatedQuery", "authenticatedQuery") >>),
     CallStmt("authenticatedQuery", "objHandlerArrow"),
     CallStmt("authenticatedQuery", "objHandlerFunction"),
     MemberStmt("ctx", "auth", "getUserIdentity", "call")}}

\* files whose import may stand after the calls of what it imports
StatementsOrder ==
  {Linked(s) : s \in
    {ImportStmt("./_generated/server",
                << ImportSpecifier("query", "query"),
                   ImportSpecifier("authenticatedQuery", "authenticatedQuery") >>),
     CallStmt("query", "objArgs"),
     CallStmt("authenticatedQuery", "objHandlerArrow"),
     MemberStmt("ctx", "auth", "getUserIdentity", "call")}}

\* files analysed one after the other: what one imports, the next may use
StatementsPasses ==
  {Linked(s) : s \in
    {ImportStmt("./_generated/server", << ImportSpecifier("query", "query") >>),
     ImportStmt("./auth", << ImportSpecifier("authenticatedQuery", "authenticatedQuery") >>),
     CallStmt("query", "objArgs"),
     CallStmt("authenticatedQuery", "objHandlerArrow"),
     MemberStmt("ctx", "auth", "getUserIdentity", "call")}}

\* files about shapes Rule B has no use for: imports without a wrapper
\* specifier, wrapper calls without a handler function
StatementsTotal ==
  {Linked(s) : s \in
    {ImportStmt("./auth", << ImportSpecifier("authenticatedQuery", "authenticatedQuery") >>),
     ImportStmt("./auth", <<>>),
     ImportStmt("./auth", << ImportDefaultSpecifier("authenticatedMutation") >>),
     ImportStmt("./auth", << ImportSpecifier("helper", "helper") >>),
     MemberStmt("ctx", "auth", "getUserIdentity", "call")}
    \cup {CallStmt("authenticatedQuery", shape) :
             shape \in {"none", "literal", "callback", "objOtherArrow", "objSpread",
                        "objHandlerIdentifier", "objHandlerArrow"}}}

(***************************************************************************)
(* The file pass.                                                          *)
(***************************************************************************)
\* no pass went before
NoPass == [filename |-> "", imports |-> {}]

\* the host creates both rules for a file: each create() runs once
BeginPassOn(f) ==
    /\ filename = f
    /\ tree = << ProgramNode >>
    /\ cursor = 1
    /\ listenersA = CreateA(f)
    /\ listenersB = CreateB(f)
    /\ importsFromGeneratedServer = EmptyMap
    /\ authenticatedImports = {}
    /\ authenticatedHandlerFunctions = {}
    /\ diagnostics = <<>>
    /\ previousPass = NoPass

\* createAuthenticatedMethods(options) has returned the two wrappers
Created ==
    /\ queryCalls = <<>>
    /\ mutationCalls = <<>>
    /\ invocations = <<>>
    /\ definitionCalls = <<>>

Init == (\E f \in Filenames : BeginPassOn(f)) /\ Created

\* the traversal reaches the next statement of the file: statement s, under block p
EnterStatement(Statements, max) ==
    /\ cursor = Len(tree)
    /\ StmtCount(tree) < max
    /\ \E p \in OpenContainers(tree) : \E s \in Statements :
          /\ s[1].type = "ImportDeclaration" => p = 1
          /\ tree' = [tree EXCEPT ![p].kids = @ \o Roots(s, Len(tree))]
                        \o Attach(s, p, Len(tree))
    /\ UNCHANGED <<filename, cursor, listenersA, listenersB,
                   importsFromGeneratedServer, authenticatedImports,
                   authenticatedHandlerFunctions, diagnostics, previousPass, wrapperVars>>

\* the traversal visits an import declaration
VisitImportDeclaration ==
    /\ cursor < Len(tree)
    /\ tree[cursor + 1].type = "ImportDeclaration"
    /\ cursor' = cursor + 1
    /\ importsFromGeneratedServer' =
          IF "ImportDeclaration" \in listenersA
          THEN ImportDeclarationA(tree[cursor + 1], importsFromGeneratedServer)
          ELSE importsFromGeneratedServer
    /\ authenticatedImports' =
          IF "ImportDeclaration" \in listenersB
          THEN ImportDeclarationB(tree[cursor + 1], authenticatedImports)
          ELSE authenticatedImports
    /\ UNCHANGED <<filename, tree, listenersA, listenersB,
                   authenticatedHandlerFunctions, diagnostics, previousPass, wrapperVars>>

\* a variant whose reports go to the front of the list
VisitCallExpressionNewestFirst ==
    /\ cursor < Len(tree)
    /\ tree[cursor + 1].type = "CallExpression"
    /\ cursor' = cursor + 1
    /\ diagnostics' =
          IF "CallExpression" \in listenersA
          THEN CallExpressionA(tree, cursor + 1, importsFromGeneratedServer)
                   \o diagnostics
          ELSE diagnostics
    /\ authenticatedHandlerFunctions' =
          IF "CallExpression" \in listenersB
          THEN CallExpressionB(tree, cursor + 1, authenticatedImports,
                               authenticatedHandlerFunctions)
          ELSE authenticatedHandlerFunctions
    /\ UNCHANGED <<filename, tree, listenersA, listenersB,
                   importsFromGeneratedServer, authenticatedImports, previousPass, wrapperVars>>

\* the traversal visits a call expression
VisitCallExpression ==
    /\ cursor < Len(tree)
    /\ tree[cursor + 1].type = "CallExpression"
    /\ cursor' = cursor + 1
    /\ diagnostics' =
          IF "CallExpression" \in listenersA
          THEN diagnostics \o
                   CallExpressionA(tree, cursor + 1, importsFromGeneratedServer)
          ELSE diagnostics
    /\ authenticatedHandlerFunctions' =
          IF "CallExpression" \in listenersB
          THEN CallExpressionB(tree, cursor + 1, authenticatedImports,
                               authenticatedHandlerFunctions)
          ELSE authenticatedHandlerFunctions
    /\ UNCHANGED <<filename, tree, listenersA, listenersB,
                   importsFromGeneratedServer, authenticatedImports, previousPass, wrapperVars>>

\* a variant whose member-expression check never gets done
VisitMemberExpressionStuck ==
    /\ cursor < Len(tree)
    /\ tree[cursor + 1].type = "MemberExpression"
    /\ UNCHANGED vars

\* the traversal visits a member expression
VisitMemberExpression ==
    /\ cursor < Len(tree)
    /\ tree[cursor + 1].type = "MemberExpression"
    /\ cursor' = cursor + 1
    /\ diagnostics' =
          IF "MemberExpression" \in listenersB
          THEN diagnostics \o
                   MemberExpressionB(tree, cursor + 1, authenticatedHandlerFunctions)
          ELSE diagnostics
    /\ UNCHANGED <<filename, tree, listenersA, listenersB,
                   importsFromGeneratedServer, authenticatedImports,
                   authenticatedHandlerFunctions, previousPass, wrapperVars>>

\* the traversal visits a node of a type no rule listens to
VisitOther ==
    /\ cursor < Len(tree)
    /\ tree[cursor + 1].type \notin
          {"ImportDeclaration", "CallExpression", "MemberExpression"}
    /\ cursor' = cursor + 1
    /\ UNCHANGED <<filename, tree, listenersA, listenersB,
                   importsFromGeneratedServer, authenticatedImports,
                   authenticatedHandlerFunctions, diagnostics, previousPass, wrapperVars>>

\* a variant whose tables outlive the pass, as module-level tables would
StalePass(f) ==
    /\ filename' = f
    /\ tree' = << ProgramNode >>
    /\ cursor' = 1
    /\ listenersA' = CreateA(f)
    /\ listenersB' = CreateB(f)
    /\ UNCHANGED <<importsFromGeneratedServer, authenticatedImports,
                   authenticatedHandlerFunctions>>
    /\ diagnostics' = <<>>

\* create(context) of both rules for file f: new tables, new diagnostics
FreshPass(f) ==
    /\ filename' = f
    /\ tree' = << ProgramNode >>
    /\ cursor' = 1
    /\ listenersA' = CreateA(f)
    /\ listenersB' = CreateB(f)
    /\ importsFromGeneratedServer' = EmptyMap
    /\ authenticatedImports' = {}
    /\ authenticatedHandlerFunctions' = {}
    /\ diagnostics' = <<>>

\* the file is done; the host starts the pass of the next file
BeginPass(f) ==
    /\ cursor = Len(tree)
    /\ FreshPass(f)
    /\ UNCHANGED <<previousPass, wrapperVars>>

\* the same, with a note of the pass that is over
BeginNextPass(f) ==
    /\ cursor = Len(tree)
    /\ FreshPass(f)
    /\ previousPass' = [filename |-> filename, imports |-> authenticatedImports]
    /\ UNCHANGED wrapperVars

\* what the traversal does at any node, and between files
Traverse ==
    \/ VisitImportDeclaration
    \/ VisitCallExpression
    \/ VisitMemberExpression
    \/ VisitOther
    \/ \E f \in Filenames : BeginPass(f)

NextA == EnterStatement(StatementsA, MaxStmtsA) \/ Traverse

NextB == EnterStatement(StatementsB, MaxStmtsB) \/ Traverse

\* passes over files about Rule A
SpecRuleA == Init /\ [][NextA]_vars

\* passes over files about Rule B
SpecRuleB == Init /\ [][NextB]_vars

NextHandlers == EnterStatement(StatementsHandlers, MaxStmtsHandlers) \/ Traverse

\* passes over files about handlers
SpecHandlers == Init /\ [][NextHandlers]_vars

\* the traversal of a file is a synchronous loop of the host: it goes on
\* while there is a node left
SpecHandlersFair ==
    SpecHandlers /\ WF_vars(VisitImportDeclaration \/ VisitCallExpression
                               \/ VisitMemberExpression \/ VisitOther)

NextImports == EnterStatement(StatementsImports, MaxStmtsImports) \/ Traverse

\* passes over files about the modules of the wrappers
SpecImports == Init /\ [][NextImports]_vars

NextNested == EnterStatement(StatementsNested, MaxStmtsNested) \/ Traverse

\* passes over files with wrapper calls inside handlers
SpecNested == Init /\ [][NextNested]_vars

NextOrder == EnterStatement(StatementsOrder, MaxStmtsOrder) \/ Traverse

\* passes over files whose imports may stand after the calls
SpecOrder == Init /\ [][NextOrder]_vars

InitNearAuthFile == (\E f \in FilenamesNearAuthFile : BeginPassOn(f)) /\ Created

NextNearAuthFile ==
    \/ EnterStatement(StatementsPasses, MaxStmtsNearAuthFile)
    \/ VisitImportDeclaration
    \/ VisitCallExpression
    \/ VisitMemberExpression
    \/ VisitOther
    \/ \E f \in FilenamesNearAuthFile : BeginPass(f)

\* passes over files whose path looks like that of the implementation file
SpecNearAuthFile == InitNearAuthFile /\ [][NextNearAuthFile]_vars

NextPasses ==
    \/ EnterStatement(StatementsPasses, MaxStmtsPasses)
    \/ VisitImportDeclaration
    \/ VisitCallExpression
    \/ VisitMemberExpression
    \/ VisitOther
    \/ \E f \in Filenames : BeginNextPass(f)

\* passes over one file after the other
SpecPasses == Init /\ [][NextPasses]_vars

NextTotal == EnterStatement(StatementsTotal, MaxStmtsTotal) \/ Traverse

\* passes over files with shapes Rule B has no use for
SpecTotal == Init /\ [][NextTotal]_vars

(***************************************************************************)
(* createAuthenticatedMethods (src/index.ts).  JavaScript values are       *)
(* records tagged with their type; an object is the function from its      *)
(* property names to their values; a promise is its settlement.            *)
(***************************************************************************)
JsNull == [type |-> "null"]

JsUndefined == [type |-> "undefined"]

JsError(message) == [type |-> "Error", message |-> message]

Fulfilled(value) == [state |-> "fulfilled", value |-> value]

Rejected(reason) == [state |-> "rejected", value |-> reason]

\* a variant that takes undefined for a value
ToBooleanNullOnly(v) == v.type # "null"

\* the truthiness of a value, as `!identity` reads it
ToBoolean(v) == v.type \notin {"null", "undefined"}

\* a variant that builds the context from the identity alone
OnlyIdentity(ctx, identity) ==
    [k \in {"identity"} |-> identity]

\* { ...ctx, identity }
SpreadWithIdentity(ctx, identity) ==
    [k \in DOMAIN ctx \cup {"identity"} |-> IF k = "identity" THEN identity ELSE ctx[k]]

\* args[0]
FirstArg(args) == IF Len(args) > 0 THEN args[1] ELSE JsUndefined

\* the handler authenticatedQuery / authenticatedMutation hands to the builder:
\* the closure over `definition`
WrappedHandler(builder, definition) ==
    [builder |-> builder, definition |-> definition]

\* an object without properties
EmptyObject == [k \in {} |-> k]

\* a variant that passes no validators on
QueryArgumentWithoutArgs(definition) ==
    [args |-> EmptyObject, handler |-> WrappedHandler("query", definition)]

\* authenticatedQuery(definition): the argument of query(...)
QueryArgument(definition) ==
    [args |-> definition.args, handler |-> WrappedHandler("query", definition)]

\* authenticatedMutation(definition): the argument of mutation(...)
MutationArgument(definition) ==
    [args |-> definition.args, handler |-> WrappedHandler("mutation", definition)]

\* the wrapped handler, called with (ctx, ...args), up to its await:
\* it has called ctx.auth.getUserIdentity() and waits for the promise
WrappedHandlerCalled(w, ctx, args) ==
    [wrapped |-> w, given |-> ctx, ctx |-> ctx, args |-> args,
     pc |-> "awaitIdentity", lookups |-> 1, awaited |-> ctx.auth.getUserIdentity,
     calls |-> <<>>, settled |-> JsUndefined]

\* a variant that takes a failed lookup for a missing identity
WrappedHandlerResumedMasking(inv) ==
    LET identity == IF inv.awaited.state = "rejected" THEN JsNull ELSE inv.awaited.value
    IN  IF ~ToBoolean(identity)
        THEN [inv EXCEPT !.pc = "rejected",
                         !.settled = JsError("Not authenticated")]
        ELSE [inv EXCEPT !.pc = "awaitHandler",
                         !.calls = Append(@,
                             [handler |-> inv.wrapped.definition.handler,
                              ctx |-> SpreadWithIdentity(inv.ctx, identity),
                              arg |-> FirstArg(inv.args)])]

\* the wrapped handler from its await on: the check of the identity and
\* the call of definition.handler
WrappedHandlerResumed(inv) ==
    IF inv.awaited.state = "rejected"
    THEN [inv EXCEPT !.pc = "rejected", !.settled = inv.awaited.value]
    ELSE LET identity == inv.awaited.value
         IN  IF ~ToBoolean(identity)
             THEN [inv EXCEPT !.pc = "rejected",
                              !.settled = JsError("Not authenticated")]
             ELSE [inv EXCEPT !.pc = "awaitHandler",
                              !.calls = Append(@,
                                  [handler |-> inv.wrapped.definition.handler,
                                   ctx |-> SpreadWithIdentity(inv.ctx, identity),
                                   arg |-> FirstArg(inv.args)])]

\* the user's handlers: what the promise a handler returns settles to
UserHandlerPromise(handler, ctx, arg) ==
    CASE handler = "whoami" ->
            Fulfilled([type |-> "object", subject |-> ctx.identity.subject, arg |-> arg])
      [] handler = "fails" ->
            Rejected(JsError("Handler error"))

\* a variant that swallows the error of the handler
WrappedHandlerSettledSwallowing(inv) ==
    LET call == inv.calls[Len(inv.calls)]
        promise == UserHandlerPromise(call.handler, call.ctx, call.arg)
    IN  [inv EXCEPT !.pc = "fulfilled",
                    !.settled = IF promise.state = "fulfilled"
                                THEN promise.value ELSE JsUndefined]

\* a variant that awaits the handler and returns nothing
WrappedHandlerSettledVoid(inv) ==
    LET call == inv.calls[Len(inv.calls)]
        promise == UserHandlerPromise(call.handler, call.ctx, call.arg)
    IN  [inv EXCEPT !.pc = promise.state,
                    !.settled = IF promise.state = "fulfilled"
                                THEN JsUndefined ELSE promise.value]

\* the wrapped handler returns the promise of definition.handler: it
\* settles as that promise does
WrappedHandlerSettled(inv) ==
    LET call == inv.calls[Len(inv.calls)]
        promise == UserHandlerPromise(call.handler, call.ctx, call.arg)
    IN  [inv EXCEPT !.pc = promise.state, !.settled = promise.value]

(***************************************************************************)
(* What the wrappers are used with.                                        *)
(***************************************************************************)
UserHandlers == {"whoami", "fails"}

\* the definitions given to the wrappers
Definitions ==
    {[args |-> [id |-> "v.string()"], handler |-> "whoami"],
     [args |-> [count |-> "v.number()"], handler |-> "fails"]}

\* what ctx.auth.getUserIdentity() returns
IdentityPromises ==
    {Fulfilled(JsNull), Fulfilled(JsUndefined),
     Fulfilled([type |-> "object", subject |-> "user-123"]),
     Fulfilled([type |-> "object", subject |-> "user-789"]),
     Rejected(JsError("Auth service error"))}

\* the contexts wrapped handlers are invoked with
Contexts ==
    {[auth |-> [getUserIdentity |-> p], db |-> [someProperty |-> "preserved"]] :
        p \in IdentityPromises \ {Fulfilled([type |-> "object", subject |-> "user-789"])}}
    \cup {[auth |-> [getUserIdentity |-> Fulfilled([type |-> "object", subject |-> "user-789"])],
           db |-> [someProperty |-> "preserved"],
           storage |-> [type |-> "object"]]}

\* the argument lists wrapped handlers are invoked with
ArgLists == {<<>>, << [id |-> "test-id"] >>}

\* the handlers the builders have been given
RegisteredHandlers ==
    {queryCalls[i].handler : i \in 1..Len(queryCalls)}
        \cup {mutationCalls[i].handler : i \in 1..Len(mutationCalls)}

(***************************************************************************)
(* The wrappers at work.                                                   *)
(***************************************************************************)
\* authenticatedQuery(definition), while fewer than max definitions were made
AuthenticatedQueryWithin(max) ==
    /\ Len(definitionCalls) < max
    /\ \E definition \in Definitions :
          /\ queryCalls' = Append(queryCalls, QueryArgument(definition))
          /\ definitionCalls' = Append(definitionCalls,
                [wrapper |-> "authenticatedQuery", definition |-> definition])
    /\ UNCHANGED <<mutationCalls, invocations, lintVars>>

\* authenticatedMutation(definition), while fewer than max definitions were made
AuthenticatedMutationWithin(max) ==
    /\ Len(definitionCalls) < max
    /\ \E definition \in Definitions :
          /\ mutationCalls' = Append(mutationCalls, MutationArgument(definition))
          /\ definitionCalls' = Append(definitionCalls,
                [wrapper |-> "authenticatedMutation", definition |-> definition])
    /\ UNCHANGED <<queryCalls, invocations, lintVars>>

\* the host invokes a registered handler, while fewer than max invocations were made
InvokeWithin(max) ==
    /\ Len(invocations) < max
    /\ \E w \in RegisteredHandlers : \E ctx \in Contexts : \E args \in ArgLists :
          invocations' = Append(invocations, WrappedHandlerCalled(w, ctx, args))
    /\ UNCHANGED <<queryCalls, mutationCalls, definitionCalls, lintVars>>

AuthenticatedQuery == AuthenticatedQueryWithin(MaxDefinitions)

AuthenticatedMutation == AuthenticatedMutationWithin(MaxDefinitions)

Invoke == InvokeWithin(MaxInvocations)

\* a variant whose invocations share what the latest of them was called with
ResumeSharingLatest ==
    /\ \E k \in 1..Len(invocations) :
          LET inv == invocations[k]
              latest == invocations[Len(invocations)]
          IN  /\ inv.pc = "awaitIdentity"
              /\ invocations' =
                    [invocations EXCEPT ![k] =
                        WrappedHandlerResumed([inv EXCEPT !.ctx = latest.ctx,
                                                          !.awaited = latest.awaited,
                                                          !.args = latest.args])]
    /\ UNCHANGED <<queryCalls, mutationCalls, definitionCalls, lintVars>>

\* a variant that remembers the identity a wrapped handler has once found
ResumeRemembering ==
    /\ \E k \in 1..Len(invocations) :
          LET inv == invocations[k]
              earlier == {j \in 1..Len(invocations) :
                             /\ j # k
                             /\ invocations[j].wrapped = inv.wrapped
                             /\ invocations[j].calls # <<>>}
              remembered == invocations[CHOOSE j \in earlier : TRUE].calls[1].ctx.identity
          IN  /\ inv.pc = "awaitIdentity"
              /\ invocations' =
                    [invocations EXCEPT ![k] =
                        IF earlier = {}
                        THEN WrappedHandlerResumed(inv)
                        ELSE [inv EXCEPT !.pc = "awaitHandler",
                                         !.calls = Append(inv.calls,
                                             [handler |-> inv.wrapped.definition.handler,
                                              ctx |-> SpreadWithIdentity(inv.ctx, remembered),
                                              arg |-> FirstArg(inv.args)])]]
    /\ UNCHANGED <<queryCalls, mutationCalls, definitionCalls, lintVars>>

\* the promise of getUserIdentity() has settled: an invocation goes on
Resume ==
    /\ \E k \in 1..Len(invocations) :
          /\ invocations[k].pc = "awaitIdentity"
          /\ invocations' = [invocations EXCEPT ![k] = WrappedHandlerResumed(@)]
    /\ UNCHANGED <<queryCalls, mutationCalls, definitionCalls, lintVars>>

\* the promise of the user's handler has settled: an invocation is over
Settle ==
    /\ \E k \in 1..Len(invocations) :
          /\ invocations[k].pc = "awaitHandler"
          /\ invocations' = [invocations EXCEPT ![k] = WrappedHandlerSettled(@)]
    /\ UNCHANGED <<queryCalls, mutationCalls, definitionCalls, lintVars>>

InitWrapper == BeginPassOn("convex/notes.ts") /\ Created

NextWrapper ==
    \/ AuthenticatedQuery
    \/ AuthenticatedMutation
    \/ Invoke
    \/ Resume
    \/ Settle

\* the wrappers defined and their handlers invoked, in any interleaving
SpecWrapper == InitWrapper /\ [][NextWrapper]_vars

NextDefinitions ==
    \/ AuthenticatedQueryWithin(MaxDefinitionCalls)
    \/ AuthenticatedMutationWithin(MaxDefinitionCalls)
    \/ InvokeWithin(MaxProbes)
    \/ Resume
    \/ Settle

\* several wrappers defined, with an invocation now and then
SpecDefinitions == InitWrapper /\ [][NextDefinitions]_vars

(***************************************************************************)
(* What the claims speak of, read off the file itself.                     *)
(***************************************************************************)
\* the files the rules exempt
ExemptFiles == {"convex/auth.ts", "app\\convex\\auth.ts"}

\* module paths that contain `_generated/server`
GeneratedServerPaths == {"./_generated/server", "../convex/_generated/server"}

\* module paths Rule B accepts a wrapper from
WrapperPaths == {"./auth", "../auth"} \cup GeneratedServerPaths

BannedNames == {"query", "mutation"}

WrapperNames == {"authenticatedQuery", "authenticatedMutation"}

Visited(n) == n \in 1..cursor

MaxOf(S) == CHOOSE x \in S : \A y \in S : y <= x

\* the specifiers of import declaration i that import one of `names` as X
SpecifiersOf(i, X, names) ==
    {k \in 1..Len(tree[i].specifiers) :
        /\ tree[i].specifiers[k].type = "ImportSpecifier"
        /\ tree[i].specifiers[k].local = X
        /\ tree[i].specifiers[k].imported \in names}

\* the import declarations of the tree, from one of `paths`, that import one of `names` as X
ImportsOf(X, names, paths) ==
    {i \in 1..Len(tree) :
        /\ tree[i].type = "ImportDeclaration"
        /\ tree[i].source \in paths
        /\ SpecifiersOf(i, X, names) # {}}

\* the imported name of the last specifier of import i that imports one of `names` as X
ImportedAs(i, X, names) ==
    tree[i].specifiers[MaxOf(SpecifiersOf(i, X, names))].imported

\* the calls of the tree whose callee is a plain identifier
IdentifierCalls ==
    {c \in 1..Len(tree) :
        /\ tree[c].type = "CallExpression"
        /\ tree[Children(tree, c)[1]].type = "Identifier"}

CalleeName(c) == tree[Children(tree, c)[1]].name

\* the diagnostics of a rule on a node
DiagnosticsAt(ruleId, n) ==
    {k \in 1..Len(diagnostics) :
        diagnostics[k].ruleId = ruleId /\ diagnostics[k].node = n}

MessageFor(importedName) ==
    IF importedName = "query" THEN "useAuthenticatedQuery" ELSE "useAuthenticatedMutation"

\* Rule A's diagnostics on the callee of call c are one, for importedName
OneDiagnosticA(c, importedName) ==
    LET at == DiagnosticsAt(RULE_A, Children(tree, c)[1])
    IN  /\ Cardinality(at) = 1
        /\ \A k \in at : diagnostics[k].messageId = MessageFor(importedName)

(***************************************************************************)
(* Rule A.                                                                 *)
(***************************************************************************)
\* the imports of a raw factory as X from the generated module that stand before node c
RawImportsBefore(c, X) ==
    {i \in ImportsOf(X, BannedNames, GeneratedServerPaths) : i < c}

\* C1, as stated: in a file that is not exempt, whenever the file imports
\* `query` or `mutation` as X from a path containing `_generated/server`,
\* every call whose callee is the identifier X has exactly one Rule A
\* diagnostic, on its callee, with the messageId of the imported name (of
\* one of the imported names, should X be imported more than once).
C1_EveryCallOfImportReported ==
    filename \notin ExemptFiles =>
        \A c \in IdentifierCalls :
            LET imports == {i \in ImportsOf(CalleeName(c), BannedNames, GeneratedServerPaths) :
                                Visited(i)}
            IN  (Visited(c) /\ imports # {}) =>
                    \E i \in imports : \E k \in SpecifiersOf(i, CalleeName(c), BannedNames) :
                        OneDiagnosticA(c, tree[i].specifiers[k].imported)

\* C1, amended: the same of every call visited after such an import, with
\* the messageId of the latest such import of X that stands before the call.
C1_CallAfterImportReported ==
    filename \notin ExemptFiles =>
        \A c \in IdentifierCalls :
            (Visited(c) /\ RawImportsBefore(c, CalleeName(c)) # {}) =>
                OneDiagnosticA(c, ImportedAs(MaxOf(RawImportsBefore(c, CalleeName(c))),
                                             CalleeName(c), BannedNames))

\* C1, witness: a call of a renamed `mutation` import has its one diagnostic.
C1_Witness ==
    /\ filename \notin ExemptFiles
    /\ \E c \in IdentifierCalls :
          /\ Visited(c)
          /\ CalleeName(c) = Alias
          /\ RawImportsBefore(c, Alias) # {}
          /\ ImportedAs(MaxOf(RawImportsBefore(c, Alias)), Alias, BannedNames) = "mutation"
          /\ OneDiagnosticA(c, "mutation")

\* C2: Rule A has a diagnostic on the callee of a visited call exactly when
\* the file is not exempt, the callee is an identifier and an import of a
\* raw factory under that name from the generated module stands before the
\* call; and Rule A has no other diagnostics.
C2_ReportedIffResolvesToBanned ==
    /\ \A c \in 1..cursor :
          tree[c].type = "CallExpression" =>
              (DiagnosticsAt(RULE_A, Children(tree, c)[1]) # {}
                  <=> /\ filename \notin ExemptFiles
                      /\ c \in IdentifierCalls
                      /\ RawImportsBefore(c, CalleeName(c)) # {})
    /\ \A k \in 1..Len(diagnostics) :
          diagnostics[k].ruleId = RULE_A =>
              \E c \in 1..cursor :
                  /\ tree[c].type = "CallExpression"
                  /\ diagnostics[k].node = Children(tree, c)[1]

\* C2, witness: a file that is not exempt is done without a diagnostic,
\* though it calls a name imported as a raw factory from another module
\* and imports a raw factory from the generated module without calling it.
C2_Witness ==
    /\ filename \notin ExemptFiles
    /\ cursor = Len(tree)
    /\ diagnostics = <<>>
    /\ \E c \in IdentifierCalls :
          ImportsOf(CalleeName(c), BannedNames, {"./utils"}) # {}
    /\ \E X \in {"query", "mutation", Alias} :
          ImportsOf(X, BannedNames, GeneratedServerPaths) # {}

(***************************************************************************)
(* Rule B.                                                                 *)
(***************************************************************************)
IsIdentifier(n, name) == tree[n].type = "Identifier" /\ tree[n].name = name

\* the member expressions ctx.auth.getUserIdentity that are the callee of a call
ForbiddenCalls ==
    {m \in 2..Len(tree) :
        /\ tree[m].type = "MemberExpression"
        /\ tree[tree[m].parent].type = "CallExpression"
        /\ Children(tree, tree[m].parent)[1] = m
        /\ LET outer == Children(tree, m)
           IN  /\ Len(outer) = 2
               /\ IsIdentifier(outer[2], "getUserIdentity")
               /\ tree[outer[1]].type = "MemberExpression"
               /\ LET inner == Children(tree, outer[1])
                  IN  /\ Len(inner) = 2
                      /\ IsIdentifier(inner[1], "ctx")
                      /\ IsIdentifier(inner[2], "auth")}

\* the function literals that lexically enclose node n
EnclosingFunctions(n) ==
    {f \in Ancestors(tree, n) \ {n} :
        tree[f].type \in {"ArrowFunctionExpression", "FunctionExpression"}}

\* the imports of a wrapper as X, from a path Rule B accepts, that stand before node c
WrapperImportsBefore(c, X) ==
    {i \in ImportsOf(X, WrapperNames, WrapperPaths) : i < c}

\* function literal h is the value of the `handler` property of the object
\* literal that is the first argument of call w
IsHandlerOf(h, w) ==
    LET p == tree[h].parent
        o == tree[p].parent
    IN  /\ tree[p].type = "Property"
        /\ Len(Children(tree, p)) = 2
        /\ IsIdentifier(Children(tree, p)[1], "handler")
        /\ Children(tree, p)[2] = h
        /\ tree[o].type = "ObjectExpression"
        /\ tree[o].parent = w
        /\ tree[w].type = "CallExpression"
        /\ Len(Children(tree, w)) >= 2
        /\ Children(tree, w)[2] = o

\* the function literals given as handler to a call of a wrapper imported before that call
WrapperHandlers ==
    {h \in 1..Len(tree) :
        /\ tree[h].type \in {"ArrowFunctionExpression", "FunctionExpression"}
        /\ \E w \in IdentifierCalls :
              IsHandlerOf(h, w) /\ WrapperImportsBefore(w, CalleeName(w)) # {}}

\* the function literals given as handler to a call of a wrapper the file imports
HandlersOfImportedWrappers ==
    {h \in 1..Len(tree) :
        /\ tree[h].type \in {"ArrowFunctionExpression", "FunctionExpression"}
        /\ \E w \in IdentifierCalls :
              /\ IsHandlerOf(h, w)
              /\ \E i \in ImportsOf(CalleeName(w), WrapperNames, WrapperPaths) : Visited(i)}

\* Rule B has one diagnostic on node m, useContextIdentity
OneDiagnosticB(m) ==
    /\ Cardinality(DiagnosticsAt(RULE_B, m)) = 1
    /\ \A k \in DiagnosticsAt(RULE_B, m) : diagnostics[k].messageId = "useContextIdentity"

\* C3: in a pass over an exempt file neither rule has a listener and there
\* are no diagnostics, whatever the file holds.
C3_ExemptFileSilent ==
    filename \in ExemptFiles =>
        /\ listenersA = {}
        /\ listenersB = {}
        /\ diagnostics = <<>>

\* C3, witness: an exempt file is done; it calls an imported raw factory and,
\* inside the function given as handler, ctx.auth.getUserIdentity().
C3_Witness ==
    /\ filename \in ExemptFiles
    /\ cursor = Len(tree)
    /\ \E c \in IdentifierCalls : RawImportsBefore(c, CalleeName(c)) # {}
    /\ \E m \in ForbiddenCalls : EnclosingFunctions(m) # {}
    /\ diagnostics = <<>>

\* C4, as stated: in a file that is not exempt, a visited call
\* ctx.auth.getUserIdentity() whose innermost enclosing function literal is
\* the handler of a call of a wrapper the file imports has exactly one
\* useContextIdentity diagnostic, on its member expression.
C4_DirectCallInHandlerReported ==
    filename \notin ExemptFiles =>
        \A m \in ForbiddenCalls :
            (/\ Visited(m)
             /\ EnclosingFunctions(m) # {}
             /\ MaxOf(EnclosingFunctions(m)) \in HandlersOfImportedWrappers)
                => OneDiagnosticB(m)

\* C4, amended: the same where the wrapper's import stands before the
\* wrapper call.
C4_DirectCallInRegisteredHandlerReported ==
    filename \notin ExemptFiles =>
        \A m \in ForbiddenCalls :
            (/\ Visited(m)
             /\ EnclosingFunctions(m) # {}
             /\ MaxOf(EnclosingFunctions(m)) \in WrapperHandlers)
                => OneDiagnosticB(m)

\* C4, witness: the handler is a traditional function given to a renamed
\* wrapper, and the call right in its body has its one diagnostic.
C4_Witness ==
    /\ filename \notin ExemptFiles
    /\ \E m \in ForbiddenCalls :
          /\ Visited(m)
          /\ EnclosingFunctions(m) # {}
          /\ MaxOf(EnclosingFunctions(m)) \in WrapperHandlers
          /\ tree[MaxOf(EnclosingFunctions(m))].type = "FunctionExpression"
          /\ OneDiagnosticB(m)

\* C5: a visited call ctx.auth.getUserIdentity() one of whose enclosing
\* function literals, at whatever distance, is a registered handler is
\* reported.
C5_NestedCallReported ==
    \A m \in ForbiddenCalls :
        (Visited(m) /\ EnclosingFunctions(m) \cap authenticatedHandlerFunctions # {})
            => DiagnosticsAt(RULE_B, m) # {}

\* C5, witness: the call is reported in a helper function that is not
\* itself a registered handler but stands inside one.
C5_Witness ==
    \E m \in ForbiddenCalls :
        /\ Visited(m)
        /\ EnclosingFunctions(m) \cap authenticatedHandlerFunctions # {}
        /\ MaxOf(EnclosingFunctions(m)) \notin authenticatedHandlerFunctions
        /\ DiagnosticsAt(RULE_B, m) # {}

\* C6: every Rule B diagnostic is on a node one of whose enclosing function
\* literals was given as handler to a call of an approved wrapper.
C6_OutsideHandlersUnreported ==
    \A k \in 1..Len(diagnostics) :
        diagnostics[k].ruleId = RULE_B =>
            EnclosingFunctions(diagnostics[k].node) \cap WrapperHandlers # {}

\* C6, witness: after a wrapper import and a wrapper call, a visited call
\* ctx.auth.getUserIdentity() inside a function that is no handler is not
\* reported.
C6_Witness ==
    /\ filename \notin ExemptFiles
    /\ authenticatedImports # {}
    /\ \E m \in ForbiddenCalls :
          /\ Visited(m)
          /\ EnclosingFunctions(m) # {}
          /\ EnclosingFunctions(m) \cap WrapperHandlers = {}
          /\ \E w \in IdentifierCalls : w < m /\ CalleeName(w) \in authenticatedImports
          /\ DiagnosticsAt(RULE_B, m) = {}

\* C7, as stated: a visited call ctx.auth.getUserIdentity() is reported
\* exactly when its innermost enclosing function literal is a registered
\* handler.
C7_ReportedIffNearestRegistered ==
    \A m \in ForbiddenCalls :
        Visited(m) =>
            (DiagnosticsAt(RULE_B, m) # {}
                <=> /\ EnclosingFunctions(m) # {}
                    /\ MaxOf(EnclosingFunctions(m)) \in authenticatedHandlerFunctions)

\* C7, amended: it is reported exactly when one of its enclosing function
\* literals is a registered handler.
C7_ReportedIffSomeEnclosingRegistered ==
    \A m \in ForbiddenCalls :
        Visited(m) =>
            (DiagnosticsAt(RULE_B, m) # {}
                <=> EnclosingFunctions(m) \cap authenticatedHandlerFunctions # {})

\* C7, witness: a call is reported whose innermost enclosing function is
\* an unregistered helper, inside a registered traditional function.
C7_Witness ==
    \E m \in ForbiddenCalls : \E h \in EnclosingFunctions(m) :
        /\ Visited(m)
        /\ h \in authenticatedHandlerFunctions
        /\ tree[h].type = "FunctionExpression"
        /\ h # MaxOf(EnclosingFunctions(m))
        /\ MaxOf(EnclosingFunctions(m)) \notin authenticatedHandlerFunctions
        /\ DiagnosticsAt(RULE_B, m) # {}

(***************************************************************************)
(* What the claims about the wrappers speak of.                            *)
(***************************************************************************)
\* the invocations of wrapped handlers so far
Invocations == {invocations[k] : k \in 1..Len(invocations)}

\* the invocations whose getUserIdentity() resolved to null or undefined
Unauthenticated ==
    {inv \in Invocations : inv.awaited \in {Fulfilled(JsNull), Fulfilled(JsUndefined)}}

\* the invocations whose getUserIdentity() resolved to an identity
Authenticated ==
    {inv \in Invocations :
        /\ inv.awaited.state = "fulfilled"
        /\ inv.awaited.value.type = "object"}

\* the second argument of an invocation, undefined when there is none
SecondArgument(inv) == IF inv.args = <<>> THEN JsUndefined ELSE inv.args[1]

\* C8: for both wrappers, an invocation whose getUserIdentity() resolves to
\* null or undefined rejects with the error 'Not authenticated', and the
\* user's handler is not called during it: such an invocation is waiting for
\* the identity or rejected with that error, and has made no call.
C8_MissingIdentityRejects ==
    \A inv \in Unauthenticated :
        /\ inv.calls = <<>>
        /\ inv.pc \in {"awaitIdentity", "rejected"}
        /\ inv.pc = "rejected" =>
              inv.settled = [type |-> "Error", message |-> "Not authenticated"]

\* a mutation's handler rejected for an undefined identity and one for null
C8_Witness ==
    \E i, j \in Invocations :
        /\ i.wrapped.builder = "mutation" /\ j.wrapped.builder = "mutation"
        /\ i.awaited = Fulfilled(JsUndefined) /\ j.awaited = Fulfilled(JsNull)
        /\ i.pc = "rejected" /\ j.pc = "rejected"
        /\ i.settled.message = "Not authenticated"
        /\ j.settled.message = "Not authenticated"

\* C9: for both wrappers, an invocation with (ctx, a) whose getUserIdentity()
\* resolves to an identity calls the user's handler exactly once, with a
\* context whose identity is that identity and with a as second argument,
\* and resolves to the value the user's handler resolves to.
C9_IdentityInjectedAndResultReturned ==
    \A inv \in Authenticated :
        inv.pc # "awaitIdentity" =>
            /\ Len(inv.calls) = 1
            /\ inv.calls[1].handler = inv.wrapped.definition.handler
            /\ inv.calls[1].ctx.identity = inv.awaited.value
            /\ inv.calls[1].arg = SecondArgument(inv)
            /\ LET promise == UserHandlerPromise(inv.wrapped.definition.handler,
                                                 inv.calls[1].ctx, SecondArgument(inv))
               IN  /\ promise.state = "fulfilled" => inv.pc \in {"awaitHandler", "fulfilled"}
                   /\ inv.pc = "fulfilled" =>
                         /\ promise.state = "fulfilled"
                         /\ inv.settled = promise.value

\* a query's handler invoked with an argument resolved to what the user's
\* handler made of the identity and the argument
C9_Witness ==
    \E inv \in Authenticated :
        /\ inv.wrapped.builder = "query"
        /\ inv.args = << [id |-> "test-id"] >>
        /\ inv.pc = "fulfilled"
        /\ Len(inv.calls) = 1
        /\ inv.settled = [type |-> "object", subject |-> "user-123", arg |-> [id |-> "test-id"]]

\* C10: when the identity is injected, every property of the context the
\* wrapped handler was invoked with is present with the same value in the
\* context given to the user's handler, and the caller's context is as it
\* was: it has no identity property.
C10_ContextPreservedAndUntouched ==
    \A inv \in Invocations :
        /\ \A k \in 1..Len(inv.calls) :
              \A property \in DOMAIN inv.given :
                  /\ property \in DOMAIN inv.calls[k].ctx
                  /\ inv.calls[k].ctx[property] = inv.given[property]
        /\ inv.ctx = inv.given
        /\ "identity" \notin DOMAIN inv.ctx

\* a context with auth, db and storage went to the user's handler with an
\* identity added
C10_Witness ==
    \E inv \in Invocations :
        /\ DOMAIN inv.given = {"auth", "db", "storage"}
        /\ Len(inv.calls) = 1
        /\ DOMAIN inv.calls[1].ctx = {"auth", "db", "storage", "identity"}
        /\ inv.calls[1].ctx.identity.subject = "user-789"
        /\ inv.pc = "fulfilled"

\* the invocations whose getUserIdentity() rejected
FailedLookups == {inv \in Invocations : inv.awaited.state = "rejected"}

\* C11: for both wrappers, an invocation whose getUserIdentity() rejects
\* rejects with that same error, not with 'Not authenticated', and the
\* user's handler is not called: such an invocation is waiting for the
\* lookup or rejected with the lookup's error, and has made no call.
C11_LookupErrorPropagates ==
    \A inv \in FailedLookups :
        /\ inv.calls = <<>>
        /\ inv.pc \in {"awaitIdentity", "rejected"}
        /\ inv.pc = "rejected" =>
              /\ inv.settled = inv.given.auth.getUserIdentity.value
              /\ inv.settled.message # "Not authenticated"

\* two invocations, one without and one with an argument, both
\* rejected with the error of the lookup
C11_Witness ==
    \E i, j \in FailedLookups :
        /\ i.args = <<>> /\ j.args # <<>>
        /\ i.pc = "rejected" /\ j.pc = "rejected"
        /\ i.settled = [type |-> "Error", message |-> "Auth service error"]
        /\ j.settled = [type |-> "Error", message |-> "Auth service error"]
        /\ i.calls = <<>> /\ j.calls = <<>>

\* the invocations that called a user handler whose promise rejects
FailedHandlers ==
    {inv \in Authenticated :
        /\ inv.pc # "awaitIdentity"
        /\ inv.wrapped.definition.handler = "fails"}

\* C12: for both wrappers, when the identity resolves and the user's handler
\* rejects, the invocation rejects with the handler's error and the handler
\* was called exactly once: such an invocation is waiting for the handler
\* or rejected with its error, with one call made.
C12_HandlerErrorPropagates ==
    \A inv \in FailedHandlers :
        /\ Len(inv.calls) = 1
        /\ inv.calls[1].handler = "fails"
        /\ inv.pc \in {"awaitHandler", "rejected"}
        /\ inv.pc = "rejected" =>
              inv.settled = [type |-> "Error", message |-> "Handler error"]

\* a mutation's handler rejected with the error of the user's handler
C12_Witness ==
    \E inv \in FailedHandlers :
        /\ inv.wrapped.builder = "mutation"
        /\ inv.pc = "rejected"
        /\ inv.settled.message = "Handler error"
        /\ Len(inv.calls) = 1

\* the definitions given to one wrapper so far, in order
DefinitionsGivenTo(wrapper) ==
    SelectSeq(definitionCalls, LAMBDA c : c.wrapper = wrapper)

\* the builder calls are, one for one, the calls of a wrapper: each has the
\* args of the definition and a handler closing over the definition
OneBuilderCallEach(calls, wrapper) ==
    LET given == DefinitionsGivenTo(wrapper)
    IN  /\ Len(calls) = Len(given)
        /\ \A i \in 1..Len(calls) :
              /\ DOMAIN calls[i] = {"args", "handler"}
              /\ calls[i].args = given[i].definition.args
              /\ calls[i].handler.definition = given[i].definition

\* C13: after any sequence of authenticatedQuery and authenticatedMutation
\* calls, `query` has been called once per authenticatedQuery call and
\* `mutation` once per authenticatedMutation call, each time with the
\* definition's args and a handler function; and a definition call starts no
\* invocation: it calls neither the user's handler nor getUserIdentity.
C13_OneBuilderCallPerDefinition ==
    /\ [](OneBuilderCallEach(queryCalls, "authenticatedQuery")
            /\ OneBuilderCallEach(mutationCalls, "authenticatedMutation"))
    /\ [][definitionCalls' # definitionCalls => invocations' = invocations]_vars

\* a query and a mutation were defined with different definitions, the query
\* was invoked meanwhile, and each builder has its one call
C13_Witness ==
    /\ Len(definitionCalls) = 2
    /\ definitionCalls[1].wrapper = "authenticatedQuery"
    /\ definitionCalls[2].wrapper = "authenticatedMutation"
    /\ definitionCalls[1].definition # definitionCalls[2].definition
    /\ Len(queryCalls) = 1 /\ Len(mutationCalls) = 1
    /\ queryCalls[1].args = [id |-> "v.string()"]
    /\ mutationCalls[1].args = [count |-> "v.number()"]
    /\ Len(invocations) = 1 /\ invocations[1].pc = "fulfilled"

(***************************************************************************)
(* Rule B on shapes it has no use for.                                     *)
(***************************************************************************)
\* the properties of object literal o that are named `handler`
HandlerProperties(o) ==
    {q \in 1..Len(tree) :
        /\ tree[q].parent = o
        /\ tree[q].type = "Property"
        /\ IsIdentifier(Children(tree, q)[1], "handler")}

\* call n is a call of an approved wrapper that gives it no handler function:
\* no argument, a first argument that is no object literal, no property
\* named handler, or a handler that is no function literal
WrapperCallWithoutHandlerFunction(n) ==
    /\ n \in IdentifierCalls
    /\ CalleeName(n) \in authenticatedImports
    /\ \/ Len(Children(tree, n)) = 1
       \/ /\ Len(Children(tree, n)) > 1
          /\ LET first == Children(tree, n)[2]
             IN  \/ tree[first].type # "ObjectExpression"
                 \/ HandlerProperties(first) = {}
                 \/ \A q \in HandlerProperties(first) :
                       tree[Children(tree, q)[2]].type \notin
                           {"ArrowFunctionExpression", "FunctionExpression"}

\* import n has no named specifier of a wrapper or of a raw factory
ImportWithoutMatchingSpecifier(n) ==
    /\ tree[n].type = "ImportDeclaration"
    /\ \A k \in 1..Len(tree[n].specifiers) :
          \/ tree[n].specifiers[k].type # "ImportSpecifier"
          \/ tree[n].specifiers[k].imported \notin WrapperNames \cup BannedNames

\* the next node of the traversal is one Rule B has no use for
NextNodeUseless ==
    /\ cursor < Len(tree)
    /\ \/ WrapperCallWithoutHandlerFunction(cursor + 1)
       \/ ImportWithoutMatchingSpecifier(cursor + 1)

\* C14: a call of an approved wrapper without argument, with a first
\* argument that is no object literal, without a property named handler or
\* with a handler that is no function literal, and an import without a
\* matching specifier, can always be visited (the listeners do not fail on
\* them), and the visit leaves the restricted-scope set and the alias tables
\* as they are and adds no diagnostic.
C14_UselessShapesPassSilently ==
    /\ [](NextNodeUseless => ENABLED (VisitCallExpression \/ VisitImportDeclaration))
    /\ [][(NextNodeUseless /\ cursor' = cursor + 1) =>
            /\ authenticatedHandlerFunctions' = authenticatedHandlerFunctions
            /\ authenticatedImports' = authenticatedImports
            /\ importsFromGeneratedServer' = importsFromGeneratedServer
            /\ diagnostics' = diagnostics]_vars

\* a file is done in which, after the import of a wrapper, the wrapper was
\* called with `handler: impl` and without argument: nothing is registered
C14_Witness ==
    /\ filename \notin ExemptFiles
    /\ cursor = Len(tree)
    /\ authenticatedImports = {"authenticatedQuery"}
    /\ \E c, d \in IdentifierCalls :
          /\ WrapperCallWithoutHandlerFunction(c)
          /\ WrapperCallWithoutHandlerFunction(d)
          /\ Len(Children(tree, c)) = 1
          /\ Len(Children(tree, d)) = 2
          /\ HandlerProperties(Children(tree, d)[2]) # {}
    /\ authenticatedHandlerFunctions = {}
    /\ diagnostics = <<>>

(***************************************************************************)
(* Passes in sequence.                                                     *)
(***************************************************************************)
\* what a pass over file f alone, begun with new tables, has in its tables
\* and diagnostics when it has visited the nodes 1..k of tree tr
RECURSIVE PassAlone(_, _, _)
PassAlone(f, tr, k) ==
    IF k <= 1
    THEN [importsFromGeneratedServer |-> EmptyMap,
          authenticatedImports |-> {},
          authenticatedHandlerFunctions |-> {},
          diagnostics |-> <<>>]
    ELSE LET before == PassAlone(f, tr, k - 1)
             type == tr[k].type
         IN  [importsFromGeneratedServer |->
                 IF type = "ImportDeclaration" /\ type \in CreateA(f)
                 THEN ImportDeclarationA(tr[k], before.importsFromGeneratedServer)
                 ELSE before.importsFromGeneratedServer,
              authenticatedImports |->
                 IF type = "ImportDeclaration" /\ type \in CreateB(f)
                 THEN ImportDeclarationB(tr[k], before.authenticatedImports)
                 ELSE before.authenticatedImports,
              authenticatedHandlerFunctions |->
                 IF type = "CallExpression" /\ type \in CreateB(f)
                 THEN CallExpressionB(tr, k, before.authenticatedImports,
                                      before.authenticatedHandlerFunctions)
                 ELSE before.authenticatedHandlerFunctions,
              diagnostics |->
                 before.diagnostics
                 \o (IF type = "CallExpression" /\ type \in CreateA(f)
                     THEN CallExpressionA(tr, k, before.importsFromGeneratedServer)
                     ELSE <<>>)
                 \o (IF type = "MemberExpression" /\ type \in CreateB(f)
                     THEN MemberExpressionB(tr, k, before.authenticatedHandlerFunctions)
                     ELSE <<>>)]

\* C15: whatever files were analysed before, a pass has in its alias tables,
\* its restricted-scope set and its diagnostics what a pass over its file
\* alone, begun with empty tables, has at the same node; in particular every
\* pass begins with empty tables.
C15_PassesDoNotLeak ==
    LET alone == PassAlone(filename, tree, cursor)
    IN  /\ importsFromGeneratedServer = alone.importsFromGeneratedServer
        /\ authenticatedImports = alone.authenticatedImports
        /\ authenticatedHandlerFunctions = alone.authenticatedHandlerFunctions
        /\ diagnostics = alone.diagnostics
        /\ cursor = 1 =>
              /\ importsFromGeneratedServer = EmptyMap
              /\ authenticatedImports = {}
              /\ authenticatedHandlerFunctions = {}

\* the pass before imported the wrapper; this file does not, calls it with a
\* handler that calls ctx.auth.getUserIdentity(), and is done without a
\* diagnostic
C15_Witness ==
    /\ previousPass.filename = "convex/notes.ts"
    /\ previousPass.imports = {"authenticatedQuery"}
    /\ filename = "convex/notes.ts"
    /\ cursor = Len(tree)
    /\ ImportsOf("authenticatedQuery", WrapperNames, WrapperPaths) = {}
    /\ \E m \in ForbiddenCalls :
          /\ EnclosingFunctions(m) # {}
          /\ \E w \in IdentifierCalls :
                /\ CalleeName(w) = "authenticatedQuery"
                /\ IsHandlerOf(MaxOf(EnclosingFunctions(m)), w)
    /\ authenticatedImports = {}
    /\ diagnostics = <<>>

(***************************************************************************)
(* Handlers: what counts in them, and when they are registered.            *)
(***************************************************************************)
\* the member expressions ctx.auth.getUserIdentity, called or not
ForbiddenChains ==
    {m \in 2..Len(tree) :
        /\ tree[m].type = "MemberExpression"
        /\ LET outer == Children(tree, m)
           IN  /\ Len(outer) = 2
               /\ IsIdentifier(outer[2], "getUserIdentity")
               /\ tree[outer[1]].type = "MemberExpression"
               /\ LET inner == Children(tree, outer[1])
                  IN  /\ Len(inner) = 2
                      /\ IsIdentifier(inner[1], "ctx")
                      /\ IsIdentifier(inner[2], "auth")}

\* those that are not the callee of a call: references, arguments of other calls
UncalledChains ==
    {m \in ForbiddenChains :
        \/ tree[tree[m].parent].type # "CallExpression"
        \/ Children(tree, tree[m].parent)[1] # m}

\* C16: a member chain ctx.auth.getUserIdentity that is not itself the callee
\* of a call (a reference, an argument of another call) has no diagnostic,
\* in a registered handler as anywhere; what Rule B reports are callees.
C16_UncalledChainUnreported ==
    /\ \A m \in UncalledChains : DiagnosticsAt(RULE_B, m) = {}
    /\ \A k \in 1..Len(diagnostics) :
          diagnostics[k].ruleId = RULE_B =>
              /\ tree[tree[diagnostics[k].node].parent].type = "CallExpression"
              /\ Children(tree, tree[diagnostics[k].node].parent)[1] = diagnostics[k].node

\* in a registered handler the chain has been visited as an argument of
\* another call, without diagnostic
C16_Witness ==
    /\ filename \notin ExemptFiles
    /\ cursor = Len(tree)
    /\ diagnostics = <<>>
    /\ \E h \in authenticatedHandlerFunctions : \E m \in UncalledChains :
          /\ h \in EnclosingFunctions(m)
          /\ tree[tree[m].parent].type = "CallExpression"

\* the wrapper call whose handler function literal h is
CallOfHandler(h) == tree[tree[tree[h].parent].parent].parent

\* C17: the handler function literal of a call of an approved wrapper is in
\* the restricted-scope set from the visit of the call on, hence before any
\* node inside the function is visited; it enters the set in the very step
\* that visits the call; and when a node inside a handler is visited, the
\* set already holds the handler.
C17_RegisteredBeforeDescent ==
    /\ [](filename \notin ExemptFiles =>
            \A h \in WrapperHandlers :
                Visited(CallOfHandler(h)) => h \in authenticatedHandlerFunctions)
    /\ [][\A h \in authenticatedHandlerFunctions' \ authenticatedHandlerFunctions :
            /\ cursor' = CallOfHandler(h)
            /\ cursor' < h]_vars
    /\ [][(filename \notin ExemptFiles /\ cursor' = cursor + 1) =>
            \A h \in WrapperHandlers :
                h \in Ancestors(tree, cursor + 1) \ {cursor + 1}
                    => h \in authenticatedHandlerFunctions]_vars

\* the wrapper call has just been visited: its handler is registered and no
\* node of the handler has been visited yet
C17_Witness ==
    /\ filename \notin ExemptFiles
    /\ \E h \in WrapperHandlers :
          /\ cursor = CallOfHandler(h)
          /\ cursor < h
          /\ authenticatedHandlerFunctions = {h}

(***************************************************************************)
(* Rule A: the order of the diagnostics, and names imported twice.         *)
(***************************************************************************)
\* C18: the diagnostics of a rule stand in the list in the document order
\* of their nodes, each node once: of two reported call sites p < q the
\* diagnostic of p stands before that of q.
C18_DiagnosticsInDocumentOrder ==
    \A i, j \in 1..Len(diagnostics) :
        (i < j /\ diagnostics[i].ruleId = diagnostics[j].ruleId)
            => diagnostics[i].node < diagnostics[j].node

\* two call sites have been reported, `query` and then `mutation`
C18_Witness ==
    /\ Len(diagnostics) = 2
    /\ diagnostics[1].ruleId = RULE_A /\ diagnostics[2].ruleId = RULE_A
    /\ diagnostics[1].messageId = "useAuthenticatedQuery"
    /\ diagnostics[2].messageId = "useAuthenticatedMutation"
    /\ diagnostics[1].node < diagnostics[2].node

\* the import declarations that give the local name X to anything, from any module
NamedImportsAs(X) ==
    {i \in 1..Len(tree) :
        /\ tree[i].type = "ImportDeclaration"
        /\ \E k \in 1..Len(tree[i].specifiers) :
              /\ tree[i].specifiers[k].type = "ImportSpecifier"
              /\ tree[i].specifiers[k].local = X}

\* the local names the import declarations of the tree give
LocalNames ==
    UNION {{tree[i].specifiers[k].local : k \in 1..Len(tree[i].specifiers)} :
             i \in {n \in 1..Len(tree) : tree[n].type = "ImportDeclaration"}}

\* C19, as stated: a call under a name is judged by the latest import
\* declaration of the name that stands before it, whatever its module and
\* imported name: it has a Rule A diagnostic exactly when that declaration
\* imports `query` or `mutation` under the name from the generated module,
\* and then the one for that imported name.
C19_JudgedByLatestImportOfName ==
    filename \notin ExemptFiles =>
        \A c \in IdentifierCalls :
            LET X == CalleeName(c)
                before == {i \in NamedImportsAs(X) : i < c}
                latest == MaxOf(before)
            IN  (Visited(c) /\ before # {}) =>
                    IF latest \in ImportsOf(X, BannedNames, GeneratedServerPaths)
                    THEN OneDiagnosticA(c, ImportedAs(latest, X, BannedNames))
                    ELSE DiagnosticsAt(RULE_A, Children(tree, c)[1]) = {}

\* C19, amended: the alias table holds, for a local name, the imported name
\* of the latest visited import of `query` or `mutation` under that name
\* from the generated module (the later of two such imports overwrites the
\* earlier), and holds nothing for a name without such an import; an import
\* of the name from another module, or of another symbol, changes nothing.
C19_LatestRecordedImportWins ==
    filename \notin ExemptFiles =>
        \A X \in LocalNames \cup DOMAIN importsFromGeneratedServer :
            LET recorded == {i \in ImportsOf(X, BannedNames, GeneratedServerPaths) : Visited(i)}
            IN  IF recorded = {}
                THEN X \notin DOMAIN importsFromGeneratedServer
                ELSE /\ X \in DOMAIN importsFromGeneratedServer
                     /\ importsFromGeneratedServer[X] = ImportedAs(MaxOf(recorded), X, BannedNames)

\* a name imported as `query` and then as `mutation` is bound to `mutation`,
\* and the call under it is reported as a mutation
C19_Witness ==
    /\ filename \notin ExemptFiles
    /\ \E i, j \in ImportsOf(Alias, BannedNames, GeneratedServerPaths) :
          /\ i < j /\ Visited(j)
          /\ ImportedAs(i, Alias, BannedNames) = "query"
          /\ ImportedAs(j, Alias, BannedNames) = "mutation"
          /\ importsFromGeneratedServer[Alias] = "mutation"
          /\ \E c \in IdentifierCalls :
                c > j /\ Visited(c) /\ CalleeName(c) = Alias /\ OneDiagnosticA(c, "mutation")

(***************************************************************************)
(* Rule B: the modules an approved wrapper comes from.                     *)
(***************************************************************************)
\* the module paths that equal `./auth` or `../auth`, contain `/auth` or
\* contain `_generated/server`
ApprovedWrapperPaths ==
    {"./auth", "../auth", "../lib/auth", "./authors",
     "./_generated/server", "../convex/_generated/server"}

\* C20: the local names Rule B takes for approved wrappers are exactly the
\* local names of the visited named imports of authenticatedQuery or
\* authenticatedMutation from a module path that equals `./auth` or
\* `../auth`, contains `/auth` or contains `_generated/server`; the
\* restricted scopes are exactly the handler function literals of the visited
\* calls under such a name; a wrapper-named import from another path, such
\* as the bare `auth`, gives neither.
C20_ApprovedWrapperImports ==
    filename \notin ExemptFiles =>
        /\ authenticatedImports =
              {X \in LocalNames :
                  \E i \in ImportsOf(X, WrapperNames, ApprovedWrapperPaths) : Visited(i)}
        /\ authenticatedHandlerFunctions =
              {h \in 1..Len(tree) :
                  /\ tree[h].type \in {"ArrowFunctionExpression", "FunctionExpression"}
                  /\ \E w \in IdentifierCalls :
                        /\ Visited(w)
                        /\ IsHandlerOf(h, w)
                        /\ \E i \in ImportsOf(CalleeName(w), WrapperNames, ApprovedWrapperPaths) :
                              i < w}

\* authenticatedQuery comes from the bare path `auth` only; it has been called
\* with a handler that calls ctx.auth.getUserIdentity(): nothing is
\* registered and nothing reported
C20_Witness ==
    /\ filename \notin ExemptFiles
    /\ cursor = Len(tree)
    /\ ImportsOf("authenticatedQuery", WrapperNames, {"auth"}) # {}
    /\ ImportsOf("authenticatedQuery", WrapperNames, ApprovedWrapperPaths) = {}
    /\ \E w \in IdentifierCalls : \E m \in ForbiddenCalls : \E h \in EnclosingFunctions(m) :
          CalleeName(w) = "authenticatedQuery" /\ IsHandlerOf(h, w)
    /\ authenticatedImports = {}
    /\ authenticatedHandlerFunctions = {}
    /\ diagnostics = <<>>

(***************************************************************************)
(* The tables during a pass.                                               *)
(***************************************************************************)
\* the step belongs to the pass under way: it does not start the next one
PassGoesOn == tree' # << ProgramNode >>

\* C21: within a file pass the alias table, the set of approved wrapper
\* names and the set of restricted scopes only grow: no step of the pass
\* takes a name out of the table or the set, nor a function literal out of
\* the restricted scopes.
C21_TablesOnlyGrow ==
    [][PassGoesOn =>
        /\ DOMAIN importsFromGeneratedServer \subseteq DOMAIN importsFromGeneratedServer'
        /\ authenticatedImports \subseteq authenticatedImports'
        /\ authenticatedHandlerFunctions \subseteq authenticatedHandlerFunctions']_vars

\* two handlers have been registered one after the other, by a name bound
\* before them, and the pass has gone on into the second: both are there
C21_Witness ==
    /\ filename \notin ExemptFiles
    /\ cursor = Len(tree)
    /\ authenticatedImports # {}
    /\ \E h, g \in authenticatedHandlerFunctions : h < g /\ g < cursor

(***************************************************************************)
(* The end of a pass.                                                      *)
(***************************************************************************)
\* C22: every file pass comes to its end with a finite list of diagnostics:
\* the parent of a node stands before the node and only the root has none,
\* so a walk from node to parent to parent is at the root, and over, after
\* fewer steps than the place of the node; the list has at most one
\* diagnostic for each node visited; and whenever nodes are left to visit
\* the pass reaches the last of them.
C22_PassTerminates ==
    /\ [](\A n \in 1..Len(tree) :
            /\ tree[n].parent < n
            /\ tree[n].parent = 0 <=> n = 1
            /\ Cardinality(Ancestors(tree, n)) <= n)
    /\ [](Len(diagnostics) <= cursor - 1)
    /\ (cursor < Len(tree)) ~> (cursor = Len(tree))

\* a pass is over in which a walk went from a chain that is referenced in
\* a handler, not called, through all its ancestors up to the root
C22_Witness ==
    /\ filename \notin ExemptFiles
    /\ cursor = Len(tree)
    /\ \E n \in UncalledChains :
          /\ tree[tree[n].parent].type = "ExpressionStatement"
          /\ EnclosingFunctions(n) \cap authenticatedHandlerFunctions # {}
          /\ Cardinality(Ancestors(tree, n)) > 5
    /\ diagnostics = <<>>

(***************************************************************************)
(* Rule B: handlers inside handlers.                                       *)
(***************************************************************************)
\* C23: no node has more than one Rule B diagnostic, however many of the
\* function literals around it are registered handlers.
C23_AtMostOneDiagnostic ==
    \A m \in 1..Len(tree) : Cardinality(DiagnosticsAt(RULE_B, m)) <= 1

\* a call ctx.auth.getUserIdentity() stands in the handler of a wrapper call
\* that stands in the handler of another; both are registered; the call has
\* its one diagnostic
C23_Witness ==
    \E m \in ForbiddenCalls :
        /\ Visited(m)
        /\ Cardinality(EnclosingFunctions(m) \cap authenticatedHandlerFunctions) >= 2
        /\ OneDiagnosticB(m)

(***************************************************************************)
(* Both rules: the order of imports and calls.                             *)
(***************************************************************************)
\* the function literals of the tree
FunctionLiterals ==
    {f \in 2..Len(tree) : tree[f].type \in {"ArrowFunctionExpression", "FunctionExpression"}}

\* C24: what the rules decide depends on the order of the visits: a visited
\* call under X before which no import of `query` or `mutation` as X from
\* the generated module stands has no Rule A diagnostic, whatever follows
\* it; the handler of a visited call under a name before which no import of
\* a wrapper under that name stands is not a restricted scope; and every
\* Rule A diagnostic and every restricted scope has its import before it.
C24_ImportMustComeFirst ==
    filename \notin ExemptFiles =>
        /\ \A c \in IdentifierCalls :
              (Visited(c) /\ RawImportsBefore(c, CalleeName(c)) = {})
                  => DiagnosticsAt(RULE_A, Children(tree, c)[1]) = {}
        /\ \A w \in IdentifierCalls :
              (Visited(w) /\ WrapperImportsBefore(w, CalleeName(w)) = {})
                  => \A h \in FunctionLiterals :
                        IsHandlerOf(h, w) => h \notin authenticatedHandlerFunctions
        /\ \A k \in 1..Len(diagnostics) :
              diagnostics[k].ruleId = RULE_A =>
                  RawImportsBefore(diagnostics[k].node,
                                   tree[diagnostics[k].node].name) # {}
        /\ \A h \in authenticatedHandlerFunctions :
              WrapperImportsBefore(CallOfHandler(h),
                                   CalleeName(CallOfHandler(h))) # {}

\* a file calls query, then authenticatedQuery with a handler, and only then
\* imports both: the pass is over with no diagnostic and no restricted scope
C24_Witness ==
    /\ filename \notin ExemptFiles
    /\ cursor = Len(tree)
    /\ \E c, w \in IdentifierCalls :
          /\ CalleeName(c) = "query"
          /\ CalleeName(w) = "authenticatedQuery"
          /\ \E h \in FunctionLiterals : IsHandlerOf(h, w)
          /\ \E i \in ImportsOf("query", BannedNames, GeneratedServerPaths) : c < i
          /\ \E i \in ImportsOf("authenticatedQuery", WrapperNames, WrapperPaths) : w < i
    /\ importsFromGeneratedServer # EmptyMap
    /\ authenticatedImports # {}
    /\ authenticatedHandlerFunctions = {}
    /\ diagnostics = <<>>

(***************************************************************************)
(* The wrappers: one lookup for each invocation, nothing kept.             *)
(***************************************************************************)
\* C25: every invocation of a wrapped handler has called getUserIdentity()
\* of its own context once; while it waits for the lookup it has not called
\* the user's handler; when it has called the handler, then once, its
\* lookup had resolved to an identity and that identity is the one given to
\* the handler; and an invocation whose lookup resolved to null is rejected
\* with 'Not authenticated' without a call, whatever the invocations of the
\* same wrapped handler before it found.
C25_OneLookupPerInvocation ==
    \A k \in 1..Len(invocations) :
        LET inv == invocations[k]
        IN  /\ inv.lookups = 1
            /\ inv.awaited = inv.given.auth.getUserIdentity
            /\ inv.pc = "awaitIdentity" => inv.calls = <<>>
            /\ Len(inv.calls) <= 1
            /\ inv.calls # <<>> =>
                  /\ inv.awaited.state = "fulfilled"
                  /\ inv.awaited.value.type = "object"
                  /\ inv.calls[1].ctx.identity = inv.awaited.value
            /\ (inv.awaited = Fulfilled(JsNull) /\ inv.pc # "awaitIdentity") =>
                  /\ inv.pc = "rejected"
                  /\ inv.settled = JsError("Not authenticated")
                  /\ inv.calls = <<>>

\* a wrapped handler was invoked with an identity and has returned; invoked
\* again, without, it is rejected
C25_Witness ==
    /\ Len(invocations) = 2
    /\ invocations[1].wrapped = invocations[2].wrapped
    /\ invocations[1].pc = "fulfilled"
    /\ Len(invocations[1].calls) = 1
    /\ invocations[2].awaited = Fulfilled(JsNull)
    /\ invocations[2].pc = "rejected"
    /\ invocations[2].settled = JsError("Not authenticated")

(***************************************************************************)
(* The wrappers: invocations under way at the same time.                   *)
(***************************************************************************)
\* C26: invocations of a wrapped handler do not touch one another, in
\* whatever order they go on from their awaits: the user's handler is
\* called, in an invocation, with the identity the lookup of that
\* invocation's context resolved to and with that invocation's argument,
\* what the handler makes of them is what the invocation returns, and a
\* step of one invocation leaves every other invocation as it was.
C26_InvocationsIsolated ==
    /\ [](\A inv \in Invocations :
            /\ \A c \in 1..Len(inv.calls) :
                  /\ inv.calls[c].ctx.identity = inv.given.auth.getUserIdentity.value
                  /\ inv.calls[c].arg = SecondArgument(inv)
            /\ (inv.pc = "fulfilled" /\ inv.wrapped.definition.handler = "whoami") =>
                  /\ inv.settled.subject = inv.given.auth.getUserIdentity.value.subject
                  /\ inv.settled.arg = SecondArgument(inv))
    /\ [][\A k, j \in 1..Len(invocations) :
            (j # k /\ invocations'[k] # invocations[k])
                => invocations'[j] = invocations[j]]_vars

\* two invocations of one wrapped handler, by two users with two argument
\* lists, wait for the user's handler at the same time, each with its own
\* user and argument
C26_Witness ==
    /\ Len(invocations) = 2
    /\ invocations[1].wrapped = invocations[2].wrapped
    /\ invocations[1].pc = "awaitHandler" /\ invocations[2].pc = "awaitHandler"
    /\ invocations[1].args # invocations[2].args
    /\ invocations[1].calls[1].ctx.identity.subject = "user-123"
    /\ invocations[2].calls[1].ctx.identity.subject = "user-789"
    /\ invocations[1].calls[1].arg = SecondArgument(invocations[1])
    /\ invocations[2].calls[1].arg = SecondArgument(invocations[2])

(***************************************************************************)
(* Both rules: which file is exempt.                                       *)
(***************************************************************************)
\* the paths that designate the file auth.ts directly inside a directory
\* named convex, with either separator
DesignatedFiles == {"convex/auth.ts", "convex\\auth.ts", "app\\convex\\auth.ts"}

\* C27: a file is exempt from both rules exactly when its path designates
\* auth.ts directly inside a directory named convex: a pass over such a file
\* has no diagnostic, and in a pass over any other file, notconvex/auth.ts,
\* convex/auth.tsx and convex/sub/auth.ts among them, a visited call of an
\* imported raw factory has its Rule A diagnostic and a visited call
\* ctx.auth.getUserIdentity() directly inside the handler of an imported
\* wrapper has its Rule B diagnostic.
C27_ExemptIffDesignatedFile ==
    /\ filename \in DesignatedFiles => diagnostics = <<>>
    /\ filename \notin DesignatedFiles =>
          /\ \A c \in IdentifierCalls :
                (Visited(c) /\ RawImportsBefore(c, CalleeName(c)) # {})
                    => DiagnosticsAt(RULE_A, Children(tree, c)[1]) # {}
          /\ \A m \in ForbiddenCalls :
                (/\ Visited(m)
                 /\ EnclosingFunctions(m) # {}
                 /\ MaxOf(EnclosingFunctions(m)) \in WrapperHandlers)
                    => DiagnosticsAt(RULE_B, m) # {}

====
